---- MODULE Spec2Model ----
(***************************************************************************)
(* BLOSPRAY render server (future-based generation, src/unnamed/part_001   *)
(* lines 1-3130): the scene data store, the plugin registry, the scene     *)
(* object store and the render session state machine driven by the         *)
(* connection loop.                                                        *)
(*                                                                         *)
(* std::map catalogs are functions whose DOMAIN is the set of keys held.   *)
(* Renderer-native handles are integers: the data commands hand out the    *)
(* positive ones from a counter (next_handle), the object commands the     *)
(* negative ones from a second counter (next_object_handle); 0 is the null *)
(* handle; `released` is the set of handles on which ospRelease has been   *)
(* called.                                                                 *)
(***************************************************************************)
EXTENDS Integers, Sequences, FiniteSets, TLC

\* ---------------------------------------------------------------- bounds
\* Handles the data commands may allocate in one behaviour.
MaxHandles == 3
\* Handles the object commands may allocate in one behaviour.
MaxObjectHandles == 3
\* Largest sample count a start-rendering command carries in the model.
MaxSamples == 2
\* Largest reduction factor a start-rendering command carries in the model.
MaxReduction == 4
\* The value from which on the model no longer tells sample numbers apart:
\* it is above every sample count a session can ask for, so the test
\* current_sample == render_samples is false for it and for every larger
\* number alike.
MaxFrames == MaxSamples + 1
\* Render sessions started on one connection of the thread-based server,
\* and cancel messages its input queue holds at a time.
MaxSessions == 3
MaxCancels == 2
\* Longest active instance list the model lets grow; the active light list
\* may hold the ambient light and as many lights more.
MaxInstances == 1
\* Longest list of declared parameters check_plugin_parameters is given on
\* its own.
MaxParams == 2

\* ------------------------------------------------------- input alphabets
DataNames == {"d1"}
\* Names an object update may link to; "dx" never names a data entity.
LinkNames == {"d1", "dx"}
ObjNames == {"o1"}
PluginTypes == {"PT_GEOMETRY", "PT_VOLUME", "PT_SCENE"}
PluginNames == {"p1", "p2"}
ParamStrings == {"pa", "px"}
PropStrings == {"ca", "cb"}
RendererTypes == {"scivis", "pathtracer"}
MaterialNames == {"m1"}
ModeStrings == {"final", "interactive", "other"}
Widths == {4, 8}

PROTOCOL_VERSION == 2

NullHandle == 0

\* The ambient light created by prepare_renderers holds the first handle.
AmbientLight == 1

\* ---------------------------------------------------------------- state
VARIABLES
    \* scene data store
    scene_data_types, plugin_instances, plugin_state, blender_meshes,
    \* plugin registry
    plugin_definitions,
    \* renderer backend and materials
    current_renderer_type, scene_materials,
    \* scene object store and the lists consumed at render start
    scene_objects, scene_instances, scene_lights, world,
    \* renderer-native handle allocator
    next_handle, next_object_handle, released,
    \* settings
    camera, render_settings, world_settings,
    framebuffer_width, framebuffers, framebuffer_reduction_factor,
    reduced_framebuffer_width,
    \* accumulated[i]: a frame has been rendered into framebuffers[i] since it
    \* was created or its accumulation was last reset; frame_fresh: the frame
    \* in flight was launched on a framebuffer with no accumulated samples
    accumulated, frame_fresh,
    \* the call on render_future that came before its latest ospRelease
    \* since the last accepted start-rendering: "ospIsReady" (seen finished),
    \* "ospWait" or "ospCancel"; "none" while no future has been released
    release_after,
    \* render session
    render_mode, render_samples, current_sample, render_future,
    cancel_rendering,
    \* process and connection
    server, conn, pc, render_output_socket,
    \* observable output: the progress records sent since the last accepted
    \* start-rendering, what that command asked for and how its session
    \* ended, the outcome of the last handled command, and the last data
    \* command seen for each data name
    sent, session, last, last_data_cmd,
    \* one call of check_plugin_parameters on its own: the declared
    \* parameters, the actual parameters, and what the call returned
    validate_declared, validate_actual, validation,
    \* the thread-based server (the second handle_connection): the flag and
    \* the two queues of the connection loop, the position of the render
    \* thread (thread_pc, its loop counter thread_i, the sample count it was
    \* started with), the number of render sessions started on the
    \* connection, the records forwarded to the client and the joins made
    \* in the current session, and the session in which the cancel message
    \* the thread acted on was sent (0: none)
    rendering, render_input_queue, render_result_queue,
    thread_pc, thread_i, thread_samples,
    thread_session, forwarded, joined, canceled_by

vars == <<scene_data_types, plugin_instances, plugin_state, blender_meshes,
          plugin_definitions, current_renderer_type, scene_materials,
          scene_objects, scene_instances, scene_lights, world,
          next_handle, next_object_handle, released, camera, render_settings,
          world_settings,
          framebuffer_width, framebuffers, framebuffer_reduction_factor,
          reduced_framebuffer_width, accumulated, frame_fresh, release_after,
          render_mode, render_samples,
          current_sample, render_future, cancel_rendering,
          server, conn, pc, render_output_socket,
          sent, session, last, last_data_cmd,
          validate_declared, validate_actual, validation,
          rendering, render_input_queue, render_result_queue,
          thread_pc, thread_i, thread_samples,
          thread_session, forwarded, joined, canceled_by>>

\* The variables of the thread-based server.
thread_vars == <<rendering, render_input_queue, render_result_queue,
                 thread_pc, thread_i, thread_samples,
                 thread_session, forwarded, joined, canceled_by>>

\* The variables of the future-based server.
server_vars ==
    <<scene_data_types, plugin_instances, plugin_state, blender_meshes,
      plugin_definitions, current_renderer_type, scene_materials,
      scene_objects, scene_instances, scene_lights, world,
      next_handle, next_object_handle, released, camera, render_settings,
      world_settings,
      framebuffer_width, framebuffers, framebuffer_reduction_factor,
      reduced_framebuffer_width, accumulated, frame_fresh, release_after,
      render_mode, render_samples,
      current_sample, render_future, cancel_rendering,
      server, conn, pc, render_output_socket,
      sent, session, last, last_data_cmd>>

\* The variables of the lone check_plugin_parameters call.
validation_vars == <<validate_declared, validate_actual, validation>>

\* ------------------------------------------------------------- map helpers
EmptyMap == [k \in {} |-> 0]

MapErase(m, k) == [x \in (DOMAIN m) \ {k} |-> m[x]]

MapPut(m, k, v) == [x \in (DOMAIN m) \cup {k} |-> IF x = k THEN v ELSE m[x]]

SeqToSet(s) == {s[i] : i \in 1..Len(s)}

\* --------------------------------------------------------------- hashing
\* get_sha1: a digest of the string; distinct strings give distinct digests.
get_sha1(s) == <<"sha1", s>>

\* ------------------------------------------------------------------ JSON
\* json::parse of the two parameter strings a client sends in the model:
\* "pa" is {"n": 1}, "px" is {"n": "x"}.  A parsed object maps each key to
\* the kind of its value.
ParseJson(s) == IF s = "pa" THEN [n |-> "integer"] ELSE [n |-> "string"]

is_array(v) == v = "array"

is_primitive(v) == v \in {"null", "string", "boolean", "integer", "float"}

\* ------------------------------------------------------- plugin registry
\* The extensions installed next to the server, as <type, name>.
PluginKeys == {<<"PT_GEOMETRY", "p1">>, <<"PT_GEOMETRY", "p2">>,
               <<"PT_SCENE", "p1">>}

\* What the initialize() entry point of the extension <type>_<name> puts in
\* the PluginDefinition.  The geometry and scene plugins p1 depend on the
\* renderer type, geometry plugin p1 declares one integer parameter n, and
\* geometry plugin p2 has no generate function.
PluginLibrary(type, name) ==
    [uses_renderer_type |-> (name = "p1" /\ type # "PT_VOLUME"),
     has_generate |-> (name # "p2"),
     parameters |-> IF type = "PT_GEOMETRY" /\ name = "p1"
                    THEN <<[name |-> "n", length |-> 1, type |-> "PARAM_INT"]>>
                    ELSE << >>]

\* Outcome of dlopen / dlsym("initialize") / initialize() on one attempt.
LoadOutcomes == {"dlopen_failed", "no_initialize", "initialize_failed", "loaded"}

internal_name(type, name) == <<type, name>>

\* Faulty variant of ensure_plugin_is_loaded: the shared library is loaded
\* on every request, whether or not its definition is in the registry.
ensure_plugin_is_loaded_every_time(defs, type, name, load) ==
    LET key == internal_name(type, name) IN
    IF name = "" THEN [ok |-> FALSE, set_failure |-> FALSE, defs |-> defs]
    ELSE IF load = "loaded"
         THEN [ok |-> TRUE, set_failure |-> FALSE,
               defs |-> MapPut(defs, key, PluginLibrary(type, name))]
         ELSE [ok |-> FALSE, set_failure |-> TRUE, defs |-> defs]

\* ensure_plugin_is_loaded: [ok, defs, definition]; `load` is what loading the
\* shared library does when the definition is not in plugin_definitions.
ensure_plugin_is_loaded(defs, type, name, load) ==
    LET key == internal_name(type, name) IN
    IF name = "" THEN [ok |-> FALSE, set_failure |-> FALSE, defs |-> defs]
    ELSE IF key \notin DOMAIN defs
         THEN IF load = "loaded"
              THEN [ok |-> TRUE, set_failure |-> FALSE,
                    defs |-> MapPut(defs, key, PluginLibrary(type, name))]
              ELSE [ok |-> FALSE, set_failure |-> TRUE, defs |-> defs]
         ELSE [ok |-> TRUE, set_failure |-> FALSE, defs |-> defs]

\* One declared parameter against the actual parameters (body of the loop).
ParameterOk(pdef, actual) ==
    IF pdef.name \notin DOMAIN actual THEN FALSE
    ELSE LET value == actual[pdef.name] IN
         IF pdef.length > 1 THEN is_array(value)
         ELSE IF ~is_primitive(value) THEN FALSE
         ELSE CASE pdef.type = "PARAM_INT" -> value = "integer"
                [] pdef.type = "PARAM_FLOAT" -> value = "float"
                [] pdef.type = "PARAM_STRING" -> value = "string"
                [] OTHER -> TRUE

\* Faulty variant of check_from: the outcome of a parameter replaces what
\* the parameters before it gave.
RECURSIVE check_from_keeping_last(_, _, _, _)
check_from_keeping_last(plugin_parameters, actual, i, ok) ==
    IF i > Len(plugin_parameters) THEN ok
    ELSE check_from_keeping_last(plugin_parameters, actual, i + 1,
                                 ParameterOk(plugin_parameters[i], actual))

RECURSIVE check_from(_, _, _, _)
check_from(plugin_parameters, actual, i, ok) ==
    IF i > Len(plugin_parameters) THEN ok
    ELSE check_from(plugin_parameters, actual, i + 1,
                    ok /\ ParameterOk(plugin_parameters[i], actual))

\* check_plugin_parameters: walks every declared parameter, keeps checking
\* after the first error.
check_plugin_parameters(plugin_parameters, actual_parameters) ==
    check_from(plugin_parameters, actual_parameters, 1, TRUE)

\* ------------------------------------------------------ scene data store
\* The four catalogs and the released-handle set as one value d:
\*   d.sdt scene_data_types, d.pi plugin_instances, d.ps plugin_state,
\*   d.bm blender_meshes, d.rel released handles.
DataStore == [sdt |-> scene_data_types, pi |-> plugin_instances,
              ps |-> plugin_state, bm |-> blender_meshes, rel |-> released]

\* Handles a PluginState owns, as delete_plugin_instance releases them.
StateHandles(type, state) ==
    CASE type = "PT_GEOMETRY" -> {state.geometry} \ {NullHandle}
      [] type = "PT_VOLUME" -> {state.volume} \ {NullHandle}
      [] OTHER -> SeqToSet(state.group_instances) \cup SeqToSet(state.lights)

delete_plugin_instance(d, name) ==
    IF name \notin DOMAIN d.pi THEN d
    ELSE [d EXCEPT !.rel = @ \cup StateHandles(d.pi[name].type, d.pi[name].state),
                   !.pi = MapErase(@, name),
                   !.ps = MapErase(@, name),
                   !.sdt = MapErase(@, name)]

delete_scene_data(d, name) ==
    IF name \notin DOMAIN d.sdt THEN d
    ELSE IF d.sdt[name] = "SDT_PLUGIN"
         THEN LET d1 == delete_plugin_instance(d, name)
              IN [d1 EXCEPT !.sdt = MapErase(@, name)]
         ELSE \* SDT_MESH: the blender mesh itself is not deleted (todo in source)
              [d EXCEPT !.sdt = MapErase(@, name)]

scene_data_with_type_exists(sdt, name, type) ==
    name \in DOMAIN sdt /\ sdt[name] = type

\* What generate_function does on one call: fail explicitly, report success
\* without the expected output, or report success with the output set.
GenOutcomes == {"fail", "empty", "full"}

\* Number of handles a successful generate call creates in the model: one
\* geometry, one volume, or (scene) one group and one light.
GenHandles(type, gen) ==
    IF gen # "full" THEN 0 ELSE IF type = "PT_SCENE" THEN 2 ELSE 1

\* The PluginState after the generate call (handles taken from h+1 on).
GeneratedState(type, gen, renderer, definition, h) ==
    [renderer |-> renderer,
     uses_renderer_type |-> definition.uses_renderer_type,
     geometry |-> IF type = "PT_GEOMETRY" /\ gen = "full" THEN h + 1 ELSE NullHandle,
     volume |-> IF type = "PT_VOLUME" /\ gen = "full" THEN h + 1 ELSE NullHandle,
     group_instances |-> IF type = "PT_SCENE" /\ gen = "full" THEN <<h + 1>> ELSE << >>,
     lights |-> IF type = "PT_SCENE" /\ gen = "full" THEN <<h + 2>> ELSE << >>]

\* Faulty variant of CheckCurrentInstance: an existing instance is replaced
\* without comparing it with the request.
CheckCurrentInstanceAlwaysNew(d, renderer, r) ==
    IF scene_data_with_type_exists(d.sdt, r.name, "SDT_PLUGIN")
    THEN [create_new_instance |-> TRUE, d |-> delete_plugin_instance(d, r.name)]
    ELSE [create_new_instance |-> TRUE, d |-> d]

\* Faulty variant of CheckCurrentInstance: the custom properties are not
\* compared.
CheckCurrentInstanceIgnoringProperties(d, renderer, r) ==
    IF scene_data_with_type_exists(d.sdt, r.name, "SDT_PLUGIN")
    THEN LET plugin_instance == d.pi[r.name] IN
         IF \/ plugin_instance.type # r.type
            \/ plugin_instance.plugin_name # r.plugin_name
            \/ get_sha1(r.parameters) # plugin_instance.parameters_hash
            \/ (plugin_instance.state.uses_renderer_type
                /\ plugin_instance.state.renderer # renderer)
         THEN [create_new_instance |-> TRUE, d |-> delete_plugin_instance(d, r.name)]
         ELSE [create_new_instance |-> FALSE, d |-> d]
    ELSE [create_new_instance |-> TRUE, d |-> d]

\* Lines 620-662: compare the request with the instance stored under the
\* name; a mismatching instance is deleted.  [create_new_instance, d].
CheckCurrentInstance(d, renderer, r) ==
    IF scene_data_with_type_exists(d.sdt, r.name, "SDT_PLUGIN")
    THEN LET plugin_instance == d.pi[r.name] IN
         IF plugin_instance.type # r.type \/ plugin_instance.plugin_name # r.plugin_name
         THEN [create_new_instance |-> TRUE, d |-> delete_plugin_instance(d, r.name)]
         ELSE IF get_sha1(r.parameters) # plugin_instance.parameters_hash
         THEN [create_new_instance |-> TRUE, d |-> delete_plugin_instance(d, r.name)]
         ELSE IF get_sha1(r.custom_properties) # plugin_instance.custom_properties_hash
         THEN [create_new_instance |-> TRUE, d |-> delete_plugin_instance(d, r.name)]
         ELSE IF plugin_instance.state.uses_renderer_type
                 /\ plugin_instance.state.renderer # renderer
         THEN [create_new_instance |-> TRUE, d |-> delete_plugin_instance(d, r.name)]
         ELSE [create_new_instance |-> FALSE, d |-> d]
    ELSE [create_new_instance |-> TRUE, d |-> d]

\* Result of the handler: the new store d, registry defs, handle counter h,
\* whether generate was called, the bool the handler returns (ret), the
\* success flag of the GenerateFunctionResult sent (success: "true",
\* "false", or "none" when nothing was sent) and the branch taken (outcome).
PluginResult(d, defs, h, called, ret, success, outcome) ==
    [d |-> d, defs |-> defs, h |-> h, called |-> called, ret |-> ret,
     success |-> success, outcome |-> outcome]

\* Lines 775-792: store the new instance under the name.
StorePluginInstance(d, r, state) ==
    [d EXCEPT !.pi = MapPut(@, r.name,
                        [type |-> r.type, plugin_name |-> r.plugin_name,
                         parameters_hash |-> get_sha1(r.parameters),
                         custom_properties_hash |-> get_sha1(r.custom_properties),
                         state |-> state]),
              !.ps = MapPut(@, r.name, state),
              !.sdt = MapPut(@, r.name, "SDT_PLUGIN")]

handle_update_plugin_instance(d0, defs, renderer, h, r, recv_ok, load, gen) ==
    IF ~recv_ok THEN PluginResult(d0, defs, h, FALSE, FALSE, "none", "receive_failed")
    ELSE
    LET cur == CheckCurrentInstance(d0, renderer, r)
        d == cur.d
        loaded == ensure_plugin_is_loaded(defs, r.type, r.plugin_name, load)
        key == internal_name(r.type, r.plugin_name)
    IN
    IF ~cur.create_new_instance
    THEN PluginResult(d, defs, h, FALSE, TRUE, "true", "cache_hit")
    ELSE IF ~loaded.ok
    THEN PluginResult(d, loaded.defs, h, FALSE, FALSE,
                      IF loaded.set_failure THEN "false" ELSE "true", "load_failed")
    ELSE
    LET plugin_definition == loaded.defs[key]
        state == GeneratedState(r.type, gen, renderer, plugin_definition, h)
    IN
    IF ~plugin_definition.has_generate
    THEN PluginResult(d, loaded.defs, h, FALSE, FALSE, "true", "no_generate_function")
    ELSE IF ~check_plugin_parameters(plugin_definition.parameters, ParseJson(r.parameters))
    THEN PluginResult(d, loaded.defs, h, FALSE, FALSE, "true", "bad_parameters")
    ELSE IF gen = "fail"
    THEN PluginResult(d, loaded.defs, h, TRUE, FALSE, "false", "generate_failed")
    ELSE IF r.type = "PT_GEOMETRY" /\ state.geometry = NullHandle
    THEN PluginResult(d, loaded.defs, h, TRUE, FALSE, "true", "no_output")
    ELSE IF r.type = "PT_VOLUME" /\ state.volume = NullHandle
    THEN PluginResult(d, loaded.defs, h, TRUE, FALSE, "true", "no_output")
    ELSE PluginResult(StorePluginInstance(d, r, state), loaded.defs,
                      h + GenHandles(r.type, gen), TRUE, TRUE, "true", "generated")

\* A blender mesh record.  num_vertices/num_triangles of a fresh BlenderMesh
\* are not initialised; -1 stands for the indeterminate value.  `normals`
\* is the optional vertex.normal parameter set on the geometry (vertex.color
\* is removed and set by the same statements and follows it).
NewBlenderMesh(geometry) ==
    [num_vertices |-> -1, num_triangles |-> -1, geometry |-> geometry,
     normals |-> FALSE, committed |-> FALSE]

MeshResult(d, h, ret, outcome) == [d |-> d, h |-> h, ret |-> ret, outcome |-> outcome]

\* Lines 803-840: find or create the BlenderMesh for the name.
PrepareBlenderMesh(d0, h, name) ==
    IF name \notin DOMAIN d0.sdt
    THEN [d |-> [d0 EXCEPT !.bm = MapPut(@, name, NewBlenderMesh(h + 1)),
                           !.sdt = MapPut(@, name, "SDT_MESH")],
          h |-> h + 1, created |-> TRUE]
    ELSE IF d0.sdt[name] # "SDT_MESH"
    THEN LET d1 == delete_scene_data(d0, name)
         IN [d |-> [d1 EXCEPT !.bm = MapPut(@, name, NewBlenderMesh(h + 1)),
                              !.sdt = MapPut(@, name, "SDT_MESH")],
             h |-> h + 1, created |-> TRUE]
    ELSE [d |-> [d0 EXCEPT !.bm[name].normals = FALSE], h |-> h, created |-> FALSE]

\* handle_update_blender_mesh_data; m is the MeshData message and the
\* buffers that follow it: [recv_ok, nv, nt, normals, body_ok].
handle_update_blender_mesh_data(d0, h, name, m) ==
    LET p == PrepareBlenderMesh(d0, h, name)
        sized == [p.d EXCEPT !.bm[name].num_vertices = m.nv,
                             !.bm[name].num_triangles = m.nt]
    IN
    IF ~m.recv_ok THEN MeshResult(p.d, p.h, FALSE, "receive_failed")
    ELSE IF m.nv = 0 \/ m.nt = 0 THEN MeshResult(sized, p.h, FALSE, "rejected")
    ELSE IF ~m.body_ok THEN MeshResult(sized, p.h, FALSE, "receive_failed")
    ELSE MeshResult([sized EXCEPT !.bm[name].normals = m.normals,
                                  !.bm[name].committed = TRUE],
                    p.h, TRUE, IF p.created THEN "created" ELSE "updated")

\* ----------------------------------------------------- scene object store
\* The object store, the active lists, the released set and the handle
\* counter as one value w: w.so scene_objects, w.si scene_instances,
\* w.sl scene_lights, w.rel released, w.h next_object_handle.
ObjectStore(rel, h) == [so |-> scene_objects, si |-> scene_instances,
                        sl |-> scene_lights, rel |-> rel, h |-> h]

\* The k-th handle created by an object command.
ObjectHandle(k) == 0 - k

\* Constructors of SceneObjectMesh / SceneObjectGeometry / SceneObjectVolume
\* (a group and an instance are created, the model is null), of
\* SceneObjectIsosurfaces (geometry, geometric model, group and instance are
\* created, vmodel is null) and of SceneObjectScene (no handle).
\* model_of is the geometry or volume the model was created from; deleted
\* tells that the object was destroyed while the store still points to it.
NewSceneObject(type, h) ==
    [type |-> type, data_link |-> "",
     isosurfaces_geometry |-> IF type = "SOT_ISOSURFACES" THEN ObjectHandle(h + 1)
                              ELSE NullHandle,
     group |-> CASE type \in {"SOT_SCENE", "SOT_LIGHT"} -> NullHandle
                 [] type = "SOT_ISOSURFACES" -> ObjectHandle(h + 3)
                 [] OTHER -> ObjectHandle(h + 1),
     instance |-> CASE type \in {"SOT_SCENE", "SOT_LIGHT"} -> NullHandle
                    [] type = "SOT_ISOSURFACES" -> ObjectHandle(h + 4)
                    [] OTHER -> ObjectHandle(h + 2),
     gmodel |-> IF type = "SOT_ISOSURFACES" THEN ObjectHandle(h + 2) ELSE NullHandle,
     vmodel |-> NullHandle,
     model_of |-> NullHandle,
     material |-> <<"none", "", "">>,
     instances |-> << >>, lights |-> << >>,
     light |-> NullHandle, light_type |-> "none",
     deleted |-> FALSE]

ConstructorHandles(type) ==
    CASE type \in {"SOT_SCENE", "SOT_LIGHT"} -> 0
      [] type = "SOT_ISOSURFACES" -> 4
      [] OTHER -> 2

\* Handles the destructor of the object releases.
DestructorReleases(obj) ==
    CASE obj.type = "SOT_SCENE" ->
            SeqToSet(obj.instances) \cup SeqToSet(obj.lights)
      [] obj.type = "SOT_LIGHT" -> {obj.light} \ {NullHandle}
      [] obj.type \in {"SOT_VOLUME", "SOT_ISOSURFACES"} ->
            ({obj.vmodel} \ {NullHandle}) \cup {obj.instance}
      [] OTHER -> ({obj.gmodel} \ {NullHandle}) \cup {obj.instance}

\* `delete object` on a pointer the store keeps: the destructor runs and the
\* store entry is left pointing to the destroyed object.
DeleteKeepingEntry(w, object_name) ==
    [w EXCEPT !.rel = @ \cup DestructorReleases(w.so[object_name]),
              !.so[object_name].deleted = TRUE]

delete_object(w, object_name) ==
    IF object_name \notin DOMAIN w.so THEN w
    ELSE [w EXCEPT !.rel = @ \cup DestructorReleases(w.so[object_name]),
                   !.so = MapErase(@, object_name)]

\* find_scene_object with delete_existing_mismatch = true:
\* [found, w]; found is FALSE when the function returns nullptr.
find_scene_object(w, name, type) ==
    IF name \in DOMAIN w.so
    THEN IF w.so[name].type # type
         THEN [found |-> FALSE, w |-> delete_object(w, name)]
         ELSE [found |-> TRUE, w |-> w]
    ELSE [found |-> FALSE, w |-> w]

ObjectResult(w, ret, outcome) == [w |-> w, ret |-> ret, outcome |-> outcome]

\* Material bound to the geometric model: the named one when it is in the
\* registry, else the default material of the current renderer type.
BoundMaterial(materials, renderer, matname) ==
    IF matname \in DOMAIN materials THEN <<"scene", matname, materials[matname]>>
    ELSE <<"default", renderer, renderer>>

\* update_blender_mesh_object (type SOT_MESH, data SDT_MESH) and
\* update_geometry_object (type SOT_GEOMETRY, data SDT_PLUGIN): the two
\* differ in the catalog the geometry is read from and in that only the
\* mesh variant records data_link.
UpdateModelObject(w0, d, materials, renderer, asserts, u, type) ==
    LET f == find_scene_object(w0, u.name, type)
        fresh == NewSceneObject(type, f.w.h)
        obj == IF f.found THEN f.w.so[u.name] ELSE fresh
        w1 == IF f.found THEN f.w ELSE [f.w EXCEPT !.h = @ + ConstructorHandles(type)]
        wanted == IF type = "SOT_MESH" THEN "SDT_MESH" ELSE "SDT_PLUGIN"
        discard == IF f.found THEN w1
                   ELSE [w1 EXCEPT !.rel = @ \cup DestructorReleases(fresh)]
    IN
    IF ~scene_data_with_type_exists(d.sdt, u.data_link, wanted)
    THEN ObjectResult(discard, FALSE, "link_failed")
    ELSE
    LET geometry == IF type = "SOT_MESH" THEN d.bm[u.data_link].geometry
                    ELSE d.pi[u.data_link].state.geometry
        built == IF f.found THEN obj
                 ELSE [obj EXCEPT !.gmodel = ObjectHandle(w1.h + 1), !.model_of = geometry,
                                  !.data_link = IF type = "SOT_MESH"
                                                THEN u.data_link ELSE @]
        done == [built EXCEPT !.material =
                     BoundMaterial(materials, renderer, u.material_link)]
        w2 == IF f.found THEN w1 ELSE [w1 EXCEPT !.h = @ + 1]
    IN
    IF asserts /\ type = "SOT_GEOMETRY" /\ d.pi[u.data_link].type # "PT_GEOMETRY"
    THEN ObjectResult(w1, FALSE, "assert_failed")
    ELSE IF geometry = NullHandle
    THEN ObjectResult(discard, FALSE, "link_failed")
    ELSE ObjectResult([w2 EXCEPT !.so = MapPut(@, u.name, done),
                                 !.si = Append(@, done.instance)],
                      TRUE, IF f.found THEN "updated" ELSE "created")

update_blender_mesh_object(w0, d, materials, renderer, asserts, u) ==
    UpdateModelObject(w0, d, materials, renderer, asserts, u, "SOT_MESH")

update_geometry_object(w0, d, materials, renderer, asserts, u) ==
    UpdateModelObject(w0, d, materials, renderer, asserts, u, "SOT_GEOMETRY")

\* Faulty variant of ClearOwnedLists: the lists of the existing scene object
\* are left as they are.
KeepOwnedLists(w, name) == w

\* Lines 1129-1136: the instances of the existing scene object are released
\* and its instance and light lists cleared.
ClearOwnedLists(w, name) ==
    [w EXCEPT !.rel = @ \cup SeqToSet(w.so[name].instances),
              !.so[name].instances = << >>,
              !.so[name].lights = << >>]

\* update_scene_object: an existing scene object first has its instances
\* released and its lists cleared, then the linked data is checked.
update_scene_object(w0, d, asserts, u) ==
    LET f == find_scene_object(w0, u.name, "SOT_SCENE")
        w1 == IF f.found THEN ClearOwnedLists(f.w, u.name) ELSE f.w
        obj == IF f.found THEN w1.so[u.name]
               ELSE [NewSceneObject("SOT_SCENE", w1.h) EXCEPT !.data_link = u.data_link]
    IN
    IF ~scene_data_with_type_exists(d.sdt, u.data_link, "SDT_PLUGIN")
    THEN ObjectResult(w1, FALSE, "link_failed")
    ELSE
    LET state == d.pi[u.data_link].state
        n == Len(state.group_instances)
        instances == [i \in 1..n |-> ObjectHandle(w1.h + i)]
        done == [obj EXCEPT !.instances = @ \o instances, !.lights = @ \o state.lights]
    IN
    IF asserts /\ d.pi[u.data_link].type # "PT_SCENE"
    THEN ObjectResult(w1, FALSE, "assert_failed")
    ELSE
    ObjectResult([w1 EXCEPT !.h = @ + n,
                            !.so = MapPut(@, u.name, done),
                            !.si = @ \o instances,
                            !.sl = @ \o state.lights],
                 TRUE, IF f.found THEN "updated" ELSE "created")

\* update_volume_object: the volume settings only set parameters on the
\* volumetric model.  When the plugin state has no volume the object is
\* deleted whether or not the store points to it.
update_volume_object(w0, d, asserts, u) ==
    LET f == find_scene_object(w0, u.name, "SOT_VOLUME")
        fresh == NewSceneObject("SOT_VOLUME", f.w.h)
        w1 == IF f.found THEN f.w
              ELSE [f.w EXCEPT !.h = @ + ConstructorHandles("SOT_VOLUME")]
        discard == [w1 EXCEPT !.rel = @ \cup DestructorReleases(fresh)]
    IN
    IF ~scene_data_with_type_exists(d.sdt, u.data_link, "SDT_PLUGIN")
    THEN ObjectResult(IF f.found THEN w1 ELSE discard, FALSE, "link_failed")
    ELSE IF asserts /\ d.pi[u.data_link].type # "PT_VOLUME"
    THEN ObjectResult(w1, FALSE, "assert_failed")
    ELSE
    LET volume == d.pi[u.data_link].state.volume
        done == IF f.found THEN w1.so[u.name]
                ELSE [fresh EXCEPT !.vmodel = ObjectHandle(w1.h + 1),
                                   !.model_of = volume]
        w2 == IF f.found THEN w1 ELSE [w1 EXCEPT !.h = @ + 1]
    IN
    IF volume = NullHandle
    THEN ObjectResult(IF f.found THEN DeleteKeepingEntry(w1, u.name) ELSE discard,
                      FALSE, "link_failed")
    ELSE ObjectResult([w2 EXCEPT !.so = MapPut(@, u.name, done),
                                 !.si = Append(@, done.instance)],
                      TRUE, IF f.found THEN "updated" ELSE "created")

\* update_isosurfaces_object.  The tests on scene_object are the reverse of
\* those of the other object kinds: a failing link check deletes an object
\* the store points to and leaves a fresh one alone, and the volumetric
\* model is made for an object that was found, behind an assert that the
\* name is not in the store.  isovalues tells whether the custom
\* properties carry the isovalues; with them the handler releases the
\* volume of the plugin state.
update_isosurfaces_object(w0, d, renderer, asserts, u) ==
    LET f == find_scene_object(w0, u.name, "SOT_ISOSURFACES")
        fresh == NewSceneObject("SOT_ISOSURFACES", f.w.h)
        w1 == IF f.found THEN f.w
              ELSE [f.w EXCEPT !.h = @ + ConstructorHandles("SOT_ISOSURFACES")]
        obj == IF f.found THEN w1.so[u.name] ELSE fresh
        failed == IF f.found THEN DeleteKeepingEntry(w1, u.name) ELSE w1
    IN
    IF ~scene_data_with_type_exists(d.sdt, u.data_link, "SDT_PLUGIN")
    THEN ObjectResult(failed, FALSE, "link_failed")
    ELSE IF asserts /\ d.pi[u.data_link].type # "PT_VOLUME"
    THEN ObjectResult(w1, FALSE, "assert_failed")
    ELSE
    LET volume == d.pi[u.data_link].state.volume
        remade == [obj EXCEPT !.vmodel = ObjectHandle(w1.h + 1),
                              !.model_of = volume,
                              !.material = <<"default", renderer, renderer>>]
        w2 == IF f.found
              THEN [w1 EXCEPT !.h = @ + 1, !.so = MapPut(@, u.name, remade)]
              ELSE w1
        done == IF f.found THEN remade ELSE obj
    IN
    IF volume = NullHandle
    THEN ObjectResult(failed, FALSE, "link_failed")
    ELSE IF f.found /\ asserts
    THEN ObjectResult(w1, FALSE, "assert_failed")
    ELSE IF u.custom_properties # "isovalues"
    THEN ObjectResult(w2, FALSE, "no_isovalues")
    ELSE ObjectResult([w2 EXCEPT !.rel = @ \cup {volume},
                                 !.so = MapPut(@, u.name, done),
                                 !.si = Append(@, done.instance)],
                      TRUE, IF f.found THEN "updated" ELSE "created")

\* The light subtypes of LightSettings, and those the switch of
\* update_light_object creates a light for (the AMBIENT case is commented
\* out).
LightTypes == {"POINT", "SPOT", "SUN", "AREA", "AMBIENT"}

HandledLightTypes == {"POINT", "SPOT", "SUN", "AREA"}

\* Values the uninitialized local `light` may hold.
GarbageHandles == {NullHandle, AmbientLight}

\* Line 1622: the stored subtype differs from the requested one.
LightTypeChanged(light_type, settings) == light_type # settings.type

\* update_light_object.  The local `light` is set from the stored object
\* when there is one, and by the switch over the subtype when a new object
\* is made; for a subtype the switch does not handle it keeps the value it
\* had: the handle of the light just destroyed, or garbage when no object
\* was found.  The light is appended to the active light list on every
\* update.
update_light_object(w0, asserts, name, settings, garbage) ==
    LET f == find_scene_object(w0, name, "SOT_LIGHT")
        replaced == f.found /\ LightTypeChanged(f.w.so[name].light_type, settings)
        keep == f.found /\ ~replaced
        w1 == IF replaced THEN delete_object(f.w, name) ELSE f.w
        light0 == IF f.found THEN f.w.so[name].light ELSE garbage
        handled == settings.type \in HandledLightTypes
        light == IF ~keep /\ handled THEN ObjectHandle(w1.h + 1) ELSE light0
        fresh == [NewSceneObject("SOT_LIGHT", w1.h) EXCEPT
                      !.light = light, !.light_type = settings.type,
                      !.data_link = settings.light_name]
        w2 == IF keep THEN w1
              ELSE [w1 EXCEPT !.h = IF handled THEN @ + 1 ELSE @,
                              !.so = MapPut(@, name, fresh)]
    IN
    IF f.found /\ asserts /\ f.w.so[name].light = NullHandle
    THEN ObjectResult(f.w, FALSE, "assert_failed")
    ELSE ObjectResult([w2 EXCEPT !.sl = Append(@, light)], TRUE,
                      IF keep THEN "updated"
                      ELSE IF replaced THEN "replaced" ELSE "created")

\* -------------------------------------------------------- render session
NullFB == [w |-> -1]

NewFrameBuffer(width) == [w |-> width]

\* Faulty variant of ensure_idle_render_mode: the session is left as it is.
ensure_idle_skipped ==
    [render_mode |-> render_mode, render_future |-> render_future,
     framebuffers |-> framebuffers, accumulated |-> accumulated,
     frame_fresh |-> frame_fresh, release_after |-> release_after]

\* ensure_idle_render_mode: the render mode, the future and the framebuffer
\* list after the call.  framebuffers[i + 1] is the C++ framebuffers[i].
ensure_idle_render_mode ==
    IF render_mode = "RM_IDLE"
    THEN [render_mode |-> render_mode, render_future |-> render_future,
          framebuffers |-> framebuffers, accumulated |-> accumulated,
     frame_fresh |-> frame_fresh, release_after |-> release_after]
    ELSE [render_mode |-> "RM_IDLE", render_future |-> "null",
          framebuffers |-> [framebuffers EXCEPT ![framebuffer_reduction_factor + 1] =
                                NewFrameBuffer(reduced_framebuffer_width)],
          accumulated |-> [accumulated EXCEPT ![framebuffer_reduction_factor + 1] = FALSE],
          frame_fresh |-> FALSE, release_after |-> "ospCancel"]

\* The list start_rendering leaves: kept when its size already matches the
\* reduction factor, else rebuilt with one framebuffer per factor 1..f.
PreparedFramebuffers(fbs, width, f) ==
    IF Len(fbs) - 1 # f
    THEN <<NullFB>> \o [k \in 1..f |-> NewFrameBuffer(width \div k)]
    ELSE fbs

\* The accumulation of the list start_rendering leaves: every framebuffer
\* of a rebuilt list is new and has its accumulation reset (line 2777), a
\* kept list is left as it is.
PreparedAccumulation(fbs, acc, f) ==
    IF Len(fbs) - 1 # f THEN [k \in 1..(f + 1) |-> FALSE] ELSE acc

\* Faulty variant of HalvedFactor: the factor goes down by one.
FactorStepDown(factor) == factor - 1

\* framebuffer_reduction_factor >>= 1 (line 3000).
HalvedFactor(factor) == factor \div 2

\* ospResetAccumulation on the framebuffer of one reduction factor.
ResetAccumulation(acc, factor) == [acc EXCEPT ![factor + 1] = FALSE]

\* ospRenderFrame on the framebuffer of one reduction factor (created with
\* OSP_FB_ACCUM): the frame is accumulated into it.
RenderInto(acc, factor) == [acc EXCEPT ![factor + 1] = TRUE]

\* Faulty variant of FrameRecord: the sample index is advanced before the
\* record is filled in.
FrameRecordNextSample(sample, factor, chan) ==
    [type |-> "FRAME", sample |-> sample + 1, reduction_factor |-> factor,
     chan |-> chan]

\* Progress records (RenderResult) and the channel each was sent on.
FrameRecord(sample, factor, chan) ==
    [type |-> "FRAME", sample |-> sample, reduction_factor |-> factor, chan |-> chan]

DoneRecord(chan) ==
    [type |-> "DONE", sample |-> 0, reduction_factor |-> 0, chan |-> chan]

CanceledRecord(chan) ==
    [type |-> "CANCELED", sample |-> 0, reduction_factor |-> 0, chan |-> chan]

NoSession == [mode |-> "none", samples |-> 0, factor |-> 0, ended |-> "none"]

\* ------------------------------------------------------------ bookkeeping
NoCommand == [op |-> "none", name |-> "", outcome |-> "", success |-> "none",
              called |-> FALSE]

Outcome(op, name, outcome, success, called) ==
    [op |-> op, name |-> name, outcome |-> outcome, success |-> success,
     called |-> called]

NoDataCmd == [op |-> "none", type |-> "", plugin_name |-> "", parameters |-> "",
              custom_properties |-> "", renderer |-> ""]

PluginCmd(r, renderer) ==
    [op |-> "plugin_ok", type |-> r.type, plugin_name |-> r.plugin_name,
     parameters |-> r.parameters, custom_properties |-> r.custom_properties,
     renderer |-> renderer]

OtherDataCmd(op) == [NoDataCmd EXCEPT !.op = op]

\* ------------------------------------------------------------------- Init
InitServer ==
    /\ scene_data_types = EmptyMap
    /\ plugin_instances = EmptyMap
    /\ plugin_state = EmptyMap
    /\ blender_meshes = EmptyMap
    /\ plugin_definitions = EmptyMap
    /\ current_renderer_type = ""
    /\ scene_materials = EmptyMap
    /\ scene_objects = EmptyMap
    /\ scene_instances = << >>
    /\ scene_lights = << >>
    /\ world = "null"
    /\ next_handle = AmbientLight
    /\ next_object_handle = 0
    /\ released = {}
    /\ camera = "null"
    /\ render_settings = "default"
    /\ world_settings = "default"
    /\ framebuffer_width = 0
    /\ framebuffers = << >>
    /\ accumulated = << >>
    /\ frame_fresh = FALSE
    /\ release_after = "none"
    /\ framebuffer_reduction_factor = 1
    /\ reduced_framebuffer_width = 0
    /\ render_mode = "RM_IDLE"
    /\ render_samples = 1
    /\ current_sample = 0
    /\ render_future = "null"
    /\ cancel_rendering = FALSE
    /\ server = "running"
    /\ conn = "listening"
    /\ pc = "recv"
    /\ render_output_socket = "null"
    /\ sent = << >>
    /\ session = NoSession
    /\ last = NoCommand
    /\ last_data_cmd = [n \in DataNames |-> NoDataCmd]

InitThread ==
    /\ rendering = FALSE
    /\ render_input_queue = << >>
    /\ render_result_queue = << >>
    /\ thread_pc = "none"
    /\ thread_i = 0
    /\ thread_samples = 0
    /\ thread_session = 0
    /\ forwarded = << >>
    /\ joined = 0
    /\ canceled_by = 0

Init ==
    /\ InitServer
    /\ InitThread
    /\ validate_declared = << >>
    /\ validate_actual = EmptyMap
    /\ validation = "none"

\* ---------------------------------------------------------------- actions
\* handle_connection is one loop: at pc = "recv" it reads and dispatches at
\* most one client message (handle_client_message), at pc = "render" it
\* runs the rest of the loop body (lines 2845-3020).  While the render mode
\* is idle the rest of the body is the single `continue` of line 2845, so a
\* handler that leaves the mode idle is back at pc = "recv".

MsgReady == server = "running" /\ conn = "open" /\ pc = "recv"

ApplyIdle(i) ==
    /\ render_mode' = i.render_mode
    /\ render_future' = i.render_future
    /\ framebuffers' = i.framebuffers
    /\ accumulated' = i.accumulated
    /\ frame_fresh' = i.frame_fresh
    /\ release_after' = i.release_after
    /\ session' = IF i.render_mode # render_mode
                  THEN [session EXCEPT !.ended = "forced"] ELSE session

KeepSession ==
    UNCHANGED <<render_samples, current_sample, cancel_rendering,
                framebuffer_reduction_factor, reduced_framebuffer_width, sent>>

KeepRender ==
    /\ KeepSession
    /\ UNCHANGED <<render_mode, render_future, framebuffers, accumulated,
                   frame_fresh, release_after, session>>

KeepData ==
    UNCHANGED <<scene_data_types, plugin_instances, plugin_state,
                blender_meshes, plugin_definitions, last_data_cmd>>

KeepObjects == UNCHANGED <<scene_objects, scene_instances, scene_lights>>

KeepHandles == UNCHANGED <<next_handle, next_object_handle, released>>

KeepSettings ==
    UNCHANGED <<camera, render_settings, world_settings, framebuffer_width,
                current_renderer_type, scene_materials, world>>

KeepProcess == UNCHANGED <<server, conn, render_output_socket>>

\* handle_client_message returned true with connection_done false.
Continue ==
    /\ pc' = IF render_mode' = "RM_IDLE" THEN "recv" ELSE "render"
    /\ KeepProcess

\* handle_connection returned: the main loop waits in accept().
Disconnect ==
    /\ conn' = "listening"
    /\ pc' = "recv"
    /\ UNCHANGED <<server, render_output_socket>>

\* main: accept() hands the next connection to handle_connection.
Accept ==
    /\ server = "running" /\ conn = "listening"
    /\ conn' = "open" /\ pc' = "recv"
    /\ UNCHANGED <<server, render_output_socket, last>>
    /\ KeepRender /\ KeepData /\ KeepObjects /\ KeepHandles /\ KeepSettings

\* The socket is not readable in this iteration.
NoMessage ==
    /\ MsgReady
    /\ KeepRender
    /\ Continue /\ UNCHANGED last
    /\ KeepData /\ KeepObjects /\ KeepHandles /\ KeepSettings

\* receive_protobuf of the client message fails (lines 2820-2827).
ReceiveFailed ==
    /\ MsgReady
    /\ Disconnect
    /\ last' = Outcome("receive", "", "failed", "none", FALSE)
    /\ KeepRender /\ KeepData /\ KeepObjects /\ KeepHandles /\ KeepSettings

\* Versions a client can announce in its handshake.
ClientVersions == {PROTOCOL_VERSION, PROTOCOL_VERSION + 1}

\* Faulty variant of the HELLO case: the failure result is sent but the
\* connection is kept open.
HelloKeepingConnection(client_version) ==
    /\ MsgReady
    /\ KeepRender
    /\ Continue
    /\ last' = IF client_version # PROTOCOL_VERSION
               THEN Outcome("hello", "", "mismatch", "false", FALSE)
               ELSE Outcome("hello", "", "ok", "true", FALSE)
    /\ KeepData /\ KeepObjects /\ KeepHandles /\ KeepSettings

\* HELLO (lines 2543-2551) with handle_hello (lines 2481-2508).
Hello(client_version) ==
    /\ MsgReady
    /\ KeepRender
    /\ IF client_version # PROTOCOL_VERSION
       THEN Disconnect /\ last' = Outcome("hello", "", "mismatch", "false", FALSE)
       ELSE Continue /\ last' = Outcome("hello", "", "ok", "true", FALSE)
    /\ KeepData /\ KeepObjects /\ KeepHandles /\ KeepSettings

\* BYE and QUIT: ensure idle, close the socket, connection done.
Bye(op) ==
    /\ MsgReady
    /\ ApplyIdle(ensure_idle_render_mode)
    /\ Disconnect
    /\ last' = Outcome(op, "", "closed", "none", FALSE)
    /\ KeepSession /\ KeepData /\ KeepObjects /\ KeepHandles /\ KeepSettings

\* Faulty variant of update_renderer_type: the materials are kept.
update_renderer_type_keeping_materials(type) ==
    IF type = current_renderer_type
    THEN UNCHANGED <<current_renderer_type, scene_materials>>
    ELSE /\ UNCHANGED scene_materials
         /\ current_renderer_type' = type

update_renderer_type(type) ==
    IF type = current_renderer_type
    THEN UNCHANGED <<current_renderer_type, scene_materials>>
    ELSE /\ scene_materials' = EmptyMap
         /\ current_renderer_type' = type

UpdateRendererType(type) ==
    /\ MsgReady
    /\ ApplyIdle(ensure_idle_render_mode)
    /\ update_renderer_type(type)
    /\ Continue
    /\ last' = Outcome("update_renderer_type", type, "ok", "none", FALSE)
    /\ UNCHANGED <<camera, render_settings, world_settings, framebuffer_width, world>>
    /\ KeepSession /\ KeepData /\ KeepObjects /\ KeepHandles

\* Faulty variant of clear_scene: the active lists are left as they are.
clear_scene_keeping_lists ==
    /\ UNCHANGED <<scene_instances, scene_lights>>
    /\ world' = IF world # "null" THEN "released" ELSE world
    /\ UNCHANGED scene_objects

\* clear_scene releases the world when the pointer is not null and does not
\* reset the pointer.
clear_scene ==
    /\ scene_instances' = << >>
    /\ scene_lights' = <<AmbientLight>>
    /\ world' = IF world # "null" THEN "released" ELSE world
    /\ UNCHANGED scene_objects

ClearScene ==
    /\ MsgReady
    /\ ApplyIdle(ensure_idle_render_mode)
    /\ clear_scene
    /\ Continue
    /\ last' = Outcome("clear_scene", "", "ok", "none", FALSE)
    /\ UNCHANGED <<camera, render_settings, world_settings, framebuffer_width,
                   current_renderer_type, scene_materials>>
    /\ KeepSession /\ KeepData /\ KeepHandles

\* UPDATE_RENDER_SETTINGS, UPDATE_WORLD_SETTINGS and UPDATE_CAMERA: ensure
\* idle, receive the settings message (a failure closes the connection),
\* apply it.
UpdateRenderSettings(recv_ok) ==
    /\ MsgReady
    /\ ApplyIdle(ensure_idle_render_mode)
    /\ IF recv_ok
       THEN /\ render_settings' = "applied"
            /\ Continue
            /\ last' = Outcome("update_render_settings", "", "ok", "none", FALSE)
       ELSE /\ UNCHANGED render_settings
            /\ Disconnect
            /\ last' = Outcome("update_render_settings", "", "receive_failed", "none", FALSE)
    /\ UNCHANGED <<camera, world_settings, framebuffer_width,
                   current_renderer_type, scene_materials, world>>
    /\ KeepSession /\ KeepData /\ KeepObjects /\ KeepHandles

UpdateWorldSettings(recv_ok) ==
    /\ MsgReady
    /\ ApplyIdle(ensure_idle_render_mode)
    /\ IF recv_ok
       THEN /\ world_settings' = "applied"
            /\ Continue
            /\ last' = Outcome("update_world_settings", "", "ok", "none", FALSE)
       ELSE /\ UNCHANGED world_settings
            /\ Disconnect
            /\ last' = Outcome("update_world_settings", "", "receive_failed", "none", FALSE)
    /\ UNCHANGED <<camera, render_settings, framebuffer_width,
                   current_renderer_type, scene_materials, world>>
    /\ KeepSession /\ KeepData /\ KeepObjects /\ KeepHandles

UpdateCamera(recv_ok) ==
    /\ MsgReady
    /\ ApplyIdle(ensure_idle_render_mode)
    /\ IF recv_ok
       THEN /\ camera' = "committed"
            /\ Continue
            /\ last' = Outcome("update_camera", "", "ok", "none", FALSE)
       ELSE /\ UNCHANGED camera
            /\ Disconnect
            /\ last' = Outcome("update_camera", "", "receive_failed", "none", FALSE)
    /\ UNCHANGED <<render_settings, world_settings, framebuffer_width,
                   current_renderer_type, scene_materials, world>>
    /\ KeepSession /\ KeepData /\ KeepObjects /\ KeepHandles

\* handle_update_material: a material stored under the name with the
\* material type of the update is kept; else a material is created for the
\* current renderer type.  The registry maps a name to the renderer type
\* its material was created for.
handle_update_material(materials, renderer, name, same_type) ==
    IF name \in DOMAIN materials /\ same_type
    THEN materials
    ELSE MapPut(materials, name, renderer)

UpdateMaterial(name) ==
    /\ MsgReady
    /\ ApplyIdle(ensure_idle_render_mode)
    /\ \E same_type \in BOOLEAN :
          scene_materials' = handle_update_material(scene_materials,
                                 current_renderer_type, name, same_type)
    /\ Continue
    /\ last' = Outcome("update_material", name, "ok", "none", FALSE)
    /\ UNCHANGED <<camera, render_settings, world_settings, framebuffer_width,
                   current_renderer_type, world>>
    /\ KeepSession /\ KeepData /\ KeepObjects /\ KeepHandles

\* update_framebuffer after ensure idle: a changed size drops every
\* framebuffer.
UpdateFramebuffer(width) ==
    /\ MsgReady
    /\ LET i == ensure_idle_render_mode IN
       ApplyIdle(IF framebuffer_width = width THEN i
                 ELSE [i EXCEPT !.framebuffers = << >>, !.accumulated = << >>])
    /\ framebuffer_width' = width
    /\ Continue
    /\ last' = Outcome("update_framebuffer", "", "ok", "none", FALSE)
    /\ UNCHANGED <<camera, render_settings, world_settings,
                   current_renderer_type, scene_materials, world>>
    /\ KeepSession /\ KeepData /\ KeepObjects /\ KeepHandles

\* GET_SERVER_STATE and QUERY_BOUND only read the stores.
Query(op) ==
    /\ MsgReady
    /\ KeepRender
    /\ Continue
    /\ last' = Outcome(op, "", "ok", "none", FALSE)
    /\ KeepData /\ KeepObjects /\ KeepHandles /\ KeepSettings

\* UPDATE_PLUGIN_INSTANCE: ensure idle, then handle_update_plugin_instance;
\* the value it returns is not looked at by handle_client_message.
UpdatePluginInstance(r, recv_ok, load, gen) ==
    /\ MsgReady
    /\ next_handle + GenHandles(r.type, gen) <= MaxHandles
    /\ ApplyIdle(ensure_idle_render_mode)
    /\ LET res == handle_update_plugin_instance(DataStore, plugin_definitions,
                      current_renderer_type, next_handle, r, recv_ok, load, gen)
       IN /\ scene_data_types' = res.d.sdt
          /\ plugin_instances' = res.d.pi
          /\ plugin_state' = res.d.ps
          /\ blender_meshes' = res.d.bm
          /\ released' = res.d.rel
          /\ plugin_definitions' = res.defs
          /\ next_handle' = res.h
          /\ UNCHANGED next_object_handle
          /\ last' = Outcome("update_plugin_instance", r.name, res.outcome,
                             res.success, res.called)
          /\ last_data_cmd' =
                IF ~recv_ok THEN last_data_cmd
                ELSE [last_data_cmd EXCEPT ![r.name] =
                         IF res.ret THEN PluginCmd(r, current_renderer_type)
                         ELSE OtherDataCmd("plugin_failed")]
    /\ Continue
    /\ KeepSession /\ KeepObjects /\ KeepSettings

\* UPDATE_BLENDER_MESH: ensure idle, then handle_update_blender_mesh_data.
UpdateBlenderMesh(name, m) ==
    /\ MsgReady
    /\ next_handle + 1 <= MaxHandles
    /\ ApplyIdle(ensure_idle_render_mode)
    /\ LET res == handle_update_blender_mesh_data(DataStore, next_handle, name, m)
       IN /\ scene_data_types' = res.d.sdt
          /\ plugin_instances' = res.d.pi
          /\ plugin_state' = res.d.ps
          /\ blender_meshes' = res.d.bm
          /\ released' = res.d.rel
          /\ next_handle' = res.h
          /\ UNCHANGED next_object_handle
          /\ last' = Outcome("update_blender_mesh", name, res.outcome, "none", FALSE)
          /\ last_data_cmd' = [last_data_cmd EXCEPT ![name] = OtherDataCmd("mesh")]
    /\ UNCHANGED plugin_definitions
    /\ Continue
    /\ KeepSession /\ KeepObjects /\ KeepSettings

\* UPDATE_OBJECT: ensure idle, then handle_update_object, which dispatches on
\* the object type (MESH, GEOMETRY, SCENE, VOLUME and ISOSURFACES here).
\* `asserts` tells whether the build keeps assert() (no NDEBUG) or compiles
\* it out; recv_ok covers the UpdateObject message and, for a volume, the
\* Volume message after it.
handle_update_object(w0, d, materials, renderer, asserts, kind, u, recv_ok) ==
    IF ~recv_ok THEN ObjectResult(w0, FALSE, "receive_failed")
    ELSE CASE kind = "MESH" ->
                update_blender_mesh_object(w0, d, materials, renderer, asserts, u)
           [] kind = "GEOMETRY" ->
                update_geometry_object(w0, d, materials, renderer, asserts, u)
           [] kind = "VOLUME" -> update_volume_object(w0, d, asserts, u)
           [] kind = "ISOSURFACES" ->
                update_isosurfaces_object(w0, d, renderer, asserts, u)
           [] OTHER -> update_scene_object(w0, d, asserts, u)

\* The store points to a destroyed object under the name: every read of it
\* by find_scene_object is a use after free.
Dangling(name) == name \in DOMAIN scene_objects /\ scene_objects[name].deleted

\* The cap on the handles object commands create; an isosurfaces object
\* takes two handles more than an object of another kind.
HandleCap(kind) ==
    IF kind = "ISOSURFACES" THEN MaxObjectHandles + 2 ELSE MaxObjectHandles

\* A use after free either ends the process or reads the destroyed object
\* as it was left.
UpdateObject(kind, u, recv_ok, asserts) ==
    /\ MsgReady
    /\ \E crash \in (IF recv_ok /\ Dangling(u.name) THEN BOOLEAN ELSE {FALSE}) :
       LET res == handle_update_object(ObjectStore(released, next_object_handle), DataStore,
                      scene_materials, current_renderer_type, asserts,
                      kind, u, recv_ok)
           aborted == res.outcome = "assert_failed" \/ crash
       IN /\ res.w.h <= HandleCap(kind)
          /\ Len(res.w.si) <= MaxInstances
          /\ Len(res.w.sl) <= MaxInstances + 1
          /\ ApplyIdle(ensure_idle_render_mode)
          /\ scene_objects' = IF aborted THEN scene_objects ELSE res.w.so
          /\ scene_instances' = IF aborted THEN scene_instances ELSE res.w.si
          /\ scene_lights' = IF aborted THEN scene_lights ELSE res.w.sl
          /\ released' = IF aborted THEN released ELSE res.w.rel
          /\ next_object_handle' = IF aborted THEN next_object_handle ELSE res.w.h
          /\ UNCHANGED next_handle
          /\ server' = IF aborted THEN "aborted" ELSE server
          /\ last' = Outcome("update_object", u.name,
                             IF crash THEN "use_after_free" ELSE res.outcome,
                             "none", FALSE)
    /\ pc' = IF render_mode' = "RM_IDLE" THEN "recv" ELSE "render"
    /\ UNCHANGED <<conn, render_output_socket>>
    /\ UNCHANGED <<scene_data_types, plugin_instances, plugin_state,
                   blender_meshes, plugin_definitions, last_data_cmd>>
    /\ KeepSession /\ KeepSettings

\* UPDATE_OBJECT of kind LIGHT: the UpdateObject message is followed by a
\* LightSettings message; a failed receive of either returns false.  The
\* parameters are set on, and the commit made to, the handle the local
\* `light` holds: when that is a released handle or garbage the calls
\* either end the process or go unnoticed.
UpdateLight(name, settings, recv_ok, asserts, garbage) ==
    /\ MsgReady
    /\ LET w0 == ObjectStore(released, next_object_handle)
           res == IF recv_ok
                  THEN update_light_object(w0, asserts, name, settings, garbage)
                  ELSE ObjectResult(w0, FALSE, "receive_failed")
           invalid == res.ret /\ res.outcome # "updated"
                      /\ settings.type \notin HandledLightTypes
       IN \E crash \in (IF (recv_ok /\ Dangling(name)) \/ invalid
                        THEN BOOLEAN ELSE {FALSE}) :
          LET aborted == res.outcome = "assert_failed" \/ crash
          IN /\ res.w.h <= MaxObjectHandles
             /\ Len(res.w.sl) <= MaxInstances + 1
             /\ ApplyIdle(ensure_idle_render_mode)
             /\ scene_objects' = IF aborted THEN scene_objects ELSE res.w.so
             /\ scene_lights' = IF aborted THEN scene_lights ELSE res.w.sl
             /\ released' = IF aborted THEN released ELSE res.w.rel
             /\ next_object_handle' = IF aborted THEN next_object_handle ELSE res.w.h
             /\ UNCHANGED <<next_handle, scene_instances>>
             /\ server' = IF aborted THEN "aborted" ELSE server
             /\ last' = Outcome("update_light", name,
                                IF crash THEN "use_after_free" ELSE res.outcome,
                                "none", FALSE)
    /\ pc' = IF render_mode' = "RM_IDLE" THEN "recv" ELSE "render"
    /\ UNCHANGED <<conn, render_output_socket>>
    /\ UNCHANGED <<scene_data_types, plugin_instances, plugin_state,
                   blender_meshes, plugin_definitions, last_data_cmd>>
    /\ KeepSession /\ KeepSettings

\* framebuffer_width / framebuffer_reduction_factor (line 2783): a division
\* of ints; by zero it is undefined, and the build either traps or goes on
\* with some value.
Quotients(width, f) == IF f = 0 THEN {0, width} ELSE {width \div f}

\* START_RENDERING: the handler asserts the session is idle, then
\* start_rendering, which ignores the command when the session is not idle.
\* prepare_scene makes a new world.
StartRendering(mode, samples, factor, asserts) ==
    /\ MsgReady
    /\ IF render_mode # "RM_IDLE"
       THEN /\ server' = IF asserts THEN "aborted" ELSE server
            /\ last' = Outcome("start_rendering", mode,
                               IF asserts THEN "assert_failed" ELSE "ignored",
                               "none", FALSE)
            /\ KeepRender /\ UNCHANGED world
       ELSE LET f == IF mode = "final" THEN 1
                     ELSE IF mode = "interactive" THEN factor
                     ELSE framebuffer_reduction_factor
            IN \E trap \in (IF f = 0 THEN BOOLEAN ELSE {FALSE}),
                  quotient \in Quotients(framebuffer_width, f) :
               IF trap
               THEN /\ server' = "aborted"
                    /\ last' = Outcome("start_rendering", mode, "division_by_zero",
                                       "none", FALSE)
                    /\ KeepRender /\ UNCHANGED world
               ELSE
               /\ render_samples' = samples
               /\ current_sample' = 1
               /\ render_mode' = IF mode = "final" THEN "RM_FINAL"
                                 ELSE IF mode = "interactive" THEN "RM_INTERACTIVE"
                                 ELSE render_mode
               /\ framebuffer_reduction_factor' = f
               /\ cancel_rendering' = FALSE
               /\ world' = "live"
               /\ framebuffers' = PreparedFramebuffers(framebuffers, framebuffer_width, f)
               /\ LET acc == PreparedAccumulation(framebuffers, accumulated, f)
                  IN /\ frame_fresh' = ~acc[f + 1]
                     /\ accumulated' = RenderInto(acc, f)
               /\ release_after' = "none"
               /\ reduced_framebuffer_width' = quotient
               /\ render_future' = "running"
               /\ sent' = << >>
               /\ session' = [mode |-> mode, samples |-> samples, factor |-> f,
                              ended |-> "running"]
               /\ last' = Outcome("start_rendering", mode, "started", "none", FALSE)
               /\ UNCHANGED server
    /\ pc' = IF render_mode' = "RM_IDLE" THEN "recv" ELSE "render"
    /\ UNCHANGED <<conn, render_output_socket>>
    /\ UNCHANGED <<camera, render_settings, world_settings, framebuffer_width,
                   current_renderer_type, scene_materials>>
    /\ KeepData /\ KeepObjects /\ KeepHandles

\* Faulty variant of CancelRendering: the flag is set whatever the mode.
CancelRenderingUnguarded ==
    /\ MsgReady
    /\ UNCHANGED <<render_mode, render_future, framebuffers, accumulated,
                   frame_fresh, release_after, session, render_samples,
                   current_sample, framebuffer_reduction_factor,
                   reduced_framebuffer_width, sent>>
    /\ cancel_rendering' = TRUE
    /\ last' = Outcome("cancel_rendering", "",
                       IF render_mode = "RM_IDLE" THEN "ignored" ELSE "accepted",
                       "none", FALSE)
    /\ Continue
    /\ KeepData /\ KeepObjects /\ KeepHandles /\ KeepSettings

\* CANCEL_RENDERING: ignored when idle, else sets the cancel flag.
CancelRendering ==
    /\ MsgReady
    /\ UNCHANGED <<render_mode, render_future, framebuffers, accumulated,
                   frame_fresh, release_after, session, render_samples,
                   current_sample, framebuffer_reduction_factor,
                   reduced_framebuffer_width, sent>>
    /\ IF render_mode = "RM_IDLE"
       THEN /\ UNCHANGED cancel_rendering
            /\ last' = Outcome("cancel_rendering", "", "ignored", "none", FALSE)
       ELSE /\ cancel_rendering' = TRUE
            /\ last' = Outcome("cancel_rendering", "", "accepted", "none", FALSE)
    /\ Continue
    /\ KeepData /\ KeepObjects /\ KeepHandles /\ KeepSettings

\* REQUEST_RENDER_OUTPUT: refused (socket closed) while rendering or when an
\* output socket is already set; else this socket becomes the output socket
\* and the connection is done.
RequestRenderOutput ==
    /\ MsgReady
    /\ IF render_mode # "RM_IDLE" \/ render_output_socket # "null"
       THEN /\ UNCHANGED render_output_socket
            /\ last' = Outcome("request_render_output", "", "refused", "none", FALSE)
       ELSE /\ render_output_socket' = "set"
            /\ last' = Outcome("request_render_output", "", "accepted", "none", FALSE)
    /\ conn' = "listening" /\ pc' = "recv"
    /\ UNCHANGED server
    /\ KeepRender /\ KeepData /\ KeepObjects /\ KeepHandles /\ KeepSettings

\* ------------------------------------------------ rest of the loop body
RenderReady == server = "running" /\ conn = "open" /\ pc = "render"

KeepStores ==
    /\ KeepData /\ KeepObjects /\ KeepHandles /\ KeepSettings
    /\ UNCHANGED <<server, conn, render_output_socket, last>>

\* Faulty variant of ProcessCancel: the session is torn down without the
\* CANCELED record.
ProcessCancelSilently ==
    /\ RenderReady /\ render_mode # "RM_IDLE" /\ cancel_rendering
    /\ render_future' = "null"
    /\ render_mode' = "RM_IDLE"
    /\ cancel_rendering' = FALSE
    /\ sent' = sent
    /\ session' = [session EXCEPT !.ended = "canceled"]
    /\ pc' = "recv"
    /\ frame_fresh' = FALSE
    /\ release_after' = "ospWait"
    /\ UNCHANGED <<render_samples, current_sample, framebuffers, accumulated,
                   framebuffer_reduction_factor, reduced_framebuffer_width>>
    /\ KeepStores

\* Lines 2849-2874: cancel, wait, release, go idle, send CANCELED.  The
\* record's channel is chosen after render_mode was set to idle.
ProcessCancel ==
    /\ RenderReady /\ render_mode # "RM_IDLE" /\ cancel_rendering
    /\ render_future' = "null"
    /\ render_mode' = "RM_IDLE"
    /\ cancel_rendering' = FALSE
    /\ sent' = Append(sent, CanceledRecord("sock"))
    /\ session' = [session EXCEPT !.ended = "canceled"]
    /\ pc' = "recv"
    /\ frame_fresh' = FALSE
    /\ release_after' = "ospWait"
    /\ UNCHANGED <<render_samples, current_sample, framebuffers, accumulated,
                   framebuffer_reduction_factor, reduced_framebuffer_width>>
    /\ KeepStores

\* Line 2876: the frame is not ready yet.
FrameNotReady ==
    /\ RenderReady /\ render_mode # "RM_IDLE" /\ ~cancel_rendering
    /\ render_future # "finished"
    /\ pc' = "recv"
    /\ KeepRender /\ KeepStores

\* Channel of a FRAME record and of the DONE record.
FrameChannel ==
    IF render_mode = "RM_INTERACTIVE" /\ render_output_socket # "null"
    THEN "output" ELSE "sock"

DoneChannel == IF render_output_socket # "null" THEN "output" ELSE "sock"

\* current_sample++ (line 3009).  A session whose sample count is below
\* its first sample number never ends and counts without bound; the model
\* follows the counter up to MaxFrames and keeps it there, and does not
\* add the FRAME records sent from then on to `sent`.
NextSample(sample) == IF sample >= MaxFrames THEN MaxFrames ELSE sample + 1

\* Lines 2879-3020: the frame is done; send it, then finish the session or
\* launch the next frame.
FrameDone ==
    /\ RenderReady /\ render_mode # "RM_IDLE" /\ ~cancel_rendering
    /\ render_future = "finished"
    /\ LET frame == FrameRecord(current_sample, framebuffer_reduction_factor,
                                FrameChannel)
       IN IF current_sample = render_samples /\ framebuffer_reduction_factor = 1
          THEN /\ sent' = sent \o <<frame, DoneRecord(DoneChannel)>>
               /\ render_mode' = "RM_IDLE"
               /\ render_future' = "null"
               /\ session' = [session EXCEPT !.ended = "done"]
               /\ frame_fresh' = FALSE
               /\ UNCHANGED <<current_sample, framebuffer_reduction_factor,
                              reduced_framebuffer_width, accumulated>>
          ELSE /\ sent' = IF current_sample >= MaxFrames THEN sent
                         ELSE Append(sent, frame)
               /\ IF framebuffer_reduction_factor > 1
                  THEN /\ framebuffer_reduction_factor' = HalvedFactor(framebuffer_reduction_factor)
                       /\ reduced_framebuffer_width' =
                              framebuffer_width \div (HalvedFactor(framebuffer_reduction_factor))
                       /\ LET acc == ResetAccumulation(accumulated,
                                                       HalvedFactor(framebuffer_reduction_factor))
                          IN /\ frame_fresh' = ~acc[HalvedFactor(framebuffer_reduction_factor) + 1]
                             /\ accumulated' =
                                    RenderInto(acc, HalvedFactor(framebuffer_reduction_factor))
                       /\ UNCHANGED current_sample
                  ELSE /\ current_sample' = NextSample(current_sample)
                       /\ frame_fresh' = ~accumulated[framebuffer_reduction_factor + 1]
                       /\ accumulated' = RenderInto(accumulated,
                                                    framebuffer_reduction_factor)
                       /\ UNCHANGED <<framebuffer_reduction_factor,
                                      reduced_framebuffer_width>>
               /\ render_future' = "running"
               /\ UNCHANGED <<render_mode, session>>
    /\ release_after' = "ospIsReady"
    /\ pc' = "recv"
    /\ UNCHANGED <<render_samples, cancel_rendering, framebuffers>>
    /\ KeepStores

\* The renderer finishes the frame in flight.
FrameFinishes ==
    /\ server = "running" /\ render_future = "running"
    /\ render_future' = "finished"
    /\ UNCHANGED <<render_mode, framebuffers, accumulated, frame_fresh,
                   release_after, session, pc>>
    /\ KeepSession /\ KeepStores

\* --------------------------------------------------- thread-based server
\* The second server of the repository renders in a thread.  Its
\* handle_connection starts render_thread_func on START_RENDERING, pushes
\* each CANCEL_RENDERING it receives while `rendering` is set onto
\* render_input_queue, and forwards what the thread pushes onto
\* render_result_queue.  The two queues are locals of handle_connection
\* and are never cleared (the clear() calls are commented out).
ThreadRecord(type, sample) == [type |-> type, sample |-> sample]

\* START_RENDERING: ignored while rendering; else the thread is started at
\* the head of its sample loop.
ThreadStartRendering(samples) ==
    /\ ~rendering
    /\ thread_session < MaxSessions
    /\ rendering' = TRUE
    /\ thread_samples' = samples
    /\ thread_i' = 1
    /\ thread_pc' = IF 1 <= samples THEN "render" ELSE "finish"
    /\ thread_session' = thread_session + 1
    /\ forwarded' = << >>
    /\ joined' = 0
    /\ canceled_by' = 0
    /\ UNCHANGED <<render_input_queue, render_result_queue>>

\* CANCEL_RENDERING: dropped, with no effect, when not rendering; else
\* queued for the thread.  The queued message is tagged with the session
\* it was sent in.
ThreadCancelRendering ==
    /\ rendering
    /\ Len(render_input_queue) < MaxCancels
    /\ render_input_queue' = Append(render_input_queue, thread_session)
    /\ UNCHANGED <<rendering, render_result_queue, thread_pc, thread_i,
                   thread_samples, thread_session, forwarded, joined, canceled_by>>

\* The thread renders sample thread_i (ospRenderFrameBlocking).
ThreadRenders ==
    /\ thread_pc = "render"
    /\ thread_pc' = "check"
    /\ UNCHANGED <<rendering, render_input_queue, render_result_queue, thread_i,
                   thread_samples, thread_session, forwarded, joined, canceled_by>>

\* After the sample: a queued message is popped and, being a cancel, ends
\* the thread with a CANCELED record; else the FRAME record is pushed and
\* the loop goes on.
ThreadChecks ==
    /\ thread_pc = "check"
    /\ IF Len(render_input_queue) > 0
       THEN /\ render_input_queue' = Tail(render_input_queue)
            /\ canceled_by' = Head(render_input_queue)
            /\ render_result_queue' =
                   Append(render_result_queue, ThreadRecord("CANCELED", 0))
            /\ thread_pc' = "returned"
            /\ UNCHANGED thread_i
       ELSE /\ render_result_queue' =
                   Append(render_result_queue, ThreadRecord("FRAME", thread_i))
            /\ thread_i' = thread_i + 1
            /\ thread_pc' = IF thread_i + 1 <= thread_samples
                            THEN "render" ELSE "finish"
            /\ UNCHANGED <<render_input_queue, canceled_by>>
    /\ UNCHANGED <<rendering, thread_samples, thread_session, forwarded, joined>>

\* After the loop: the DONE record is pushed and the thread returns.
ThreadFinishes ==
    /\ thread_pc = "finish"
    /\ render_result_queue' = Append(render_result_queue, ThreadRecord("DONE", 0))
    /\ thread_pc' = "returned"
    /\ UNCHANGED <<rendering, render_input_queue, thread_i, thread_samples,
                   thread_session, forwarded, joined, canceled_by>>

\* The connection loop pops one render result and sends it on; on CANCELED
\* or DONE it joins the thread and clears `rendering`.
ForwardResult ==
    /\ rendering /\ Len(render_result_queue) > 0
    /\ LET render_result == Head(render_result_queue)
       IN /\ render_result_queue' = Tail(render_result_queue)
          /\ forwarded' = Append(forwarded, render_result)
          /\ IF render_result.type \in {"CANCELED", "DONE"}
             THEN /\ thread_pc = "returned"
                  /\ thread_pc' = "none"
                  /\ joined' = joined + 1
                  /\ rendering' = FALSE
             ELSE UNCHANGED <<thread_pc, joined, rendering>>
    /\ UNCHANGED <<render_input_queue, thread_i, thread_samples, thread_session,
                   canceled_by>>

\* --------------------------------------------------------- input domains
Requests ==
    {r \in [name : DataNames, type : PluginTypes, plugin_name : PluginNames,
            parameters : ParamStrings, custom_properties : PropStrings] :
        /\ <<r.type, r.plugin_name>> \in PluginKeys
        /\ (r.plugin_name = "p2" => r.parameters = "pa")
        /\ (r.type # "PT_GEOMETRY" \/ r.plugin_name = "p2"
               => r.custom_properties = "ca")}

\* What the environment does during one update-plugin-instance: the message
\* is not received, the extension fails to load, or it loads (when not yet
\* loaded) and generate ends in one of its three ways.
PluginEnvs ==
    {[recv_ok |-> FALSE, load |-> "loaded", gen |-> "full"]}
    \cup {[recv_ok |-> TRUE, load |-> l, gen |-> "full"] : l \in LoadOutcomes \ {"loaded"}}
    \cup {[recv_ok |-> TRUE, load |-> "loaded", gen |-> g] : g \in GenOutcomes}

\* The MeshData message and the buffers after it.
MeshMessages ==
    {m \in [recv_ok : BOOLEAN, nv : {0, 3}, nt : {0, 1}, normals : BOOLEAN,
            body_ok : BOOLEAN] :
        /\ (~m.recv_ok => m.nv = 3 /\ m.nt = 1 /\ m.body_ok /\ ~m.normals)
        /\ (m.nv = 0 \/ m.nt = 0 => m.body_ok /\ ~m.normals /\ m.nv + m.nt # 0)
        /\ (~m.body_ok => ~m.normals)
        /\ (m.recv_ok /\ m.body_ok /\ m.nv = 3 /\ m.nt = 1 => m.normals)}

ObjectKinds == {"MESH", "GEOMETRY", "SCENE"}

VolumeKinds == {"VOLUME", "ISOSURFACES"}

\* The custom properties of an object update: with or without isovalues.
ObjectProps == {"isovalues", "none"}

\* UpdateObject messages; the custom properties are only read for an
\* isosurfaces object, the material link only for a mesh or a geometry.
AllUpdates == [name : ObjNames, data_link : LinkNames, material_link : MaterialNames,
               custom_properties : ObjectProps]

Updates == {u \in AllUpdates : u.custom_properties = "none"}

\* The requests, mesh and object update the object and render
\* specifications send.
FixedRequests ==
    {r \in Requests : r.parameters = "pa" /\ r.custom_properties = "ca"
                      /\ r.plugin_name = "p1"}

PlainMesh ==
    [recv_ok |-> TRUE, nv |-> 3, nt |-> 1, normals |-> TRUE, body_ok |-> TRUE]

RenderRequest ==
    [name |-> "d1", type |-> "PT_GEOMETRY", plugin_name |-> "p1",
     parameters |-> "pa", custom_properties |-> "ca"]

\* The volume plugin instance the volume and isosurfaces objects link to.
VolumeRequest ==
    [name |-> "d1", type |-> "PT_VOLUME", plugin_name |-> "p1",
     parameters |-> "pa", custom_properties |-> "ca"]

RenderUpdate == [name |-> "o1", data_link |-> "d1", material_link |-> "m1",
                 custom_properties |-> "none"]

\* ---------------------------------------------------------- specifications
\* The scene data store under every plugin-instance and mesh-data command.
NextData ==
    /\ UNCHANGED <<validation_vars, thread_vars>>
    /\ \/ Accept
       \/ \E r \in Requests, e \in PluginEnvs :
             UpdatePluginInstance(r, e.recv_ok, e.load, e.gen)
       \/ \E name \in DataNames, m \in MeshMessages : UpdateBlenderMesh(name, m)
       \/ \E type \in RendererTypes : UpdateRendererType(type)

SpecData == Init /\ [][NextData]_vars

\* The scene object store over a data store filled by plain commands.
NextObjects ==
    /\ UNCHANGED <<validation_vars, thread_vars>>
    /\ \/ Accept
       \/ \E r \in FixedRequests : UpdatePluginInstance(r, TRUE, "loaded", "full")
       \/ \E name \in DataNames : UpdateBlenderMesh(name, PlainMesh)
       \/ \E kind \in ObjectKinds, u \in Updates, recv_ok \in BOOLEAN, asserts \in BOOLEAN :
             UpdateObject(kind, u, recv_ok, asserts)
       \/ \E type \in RendererTypes : UpdateRendererType(type)
       \/ \E name \in MaterialNames : UpdateMaterial(name)
       \/ ClearScene

SpecObjects == Init /\ [][NextObjects]_vars

\* Volume, isosurfaces and geometry objects over a data store that holds a
\* volume or a geometry plugin instance.
NextVolumes ==
    /\ UNCHANGED <<validation_vars, thread_vars>>
    /\ \/ Accept
       \/ \E r \in {VolumeRequest, RenderRequest} :
             UpdatePluginInstance(r, TRUE, "loaded", "full")
       \/ \E kind \in VolumeKinds \cup {"GEOMETRY"}, u \in AllUpdates,
             recv_ok \in BOOLEAN, asserts \in BOOLEAN :
             /\ (kind # "ISOSURFACES" => u.custom_properties = "none")
             /\ UpdateObject(kind, u, recv_ok, asserts)
       \/ ClearScene

SpecVolumes == Init /\ [][NextVolumes]_vars

\* The connection loop and the render session under every session command.
NextRender ==
    /\ UNCHANGED <<validation_vars, thread_vars>>
    /\ \/ Accept
       \/ NoMessage
       \/ ReceiveFailed
       \/ \E v \in ClientVersions : Hello(v)
       \/ \E op \in {"bye", "quit"} : Bye(op)
       \/ \E width \in Widths : UpdateFramebuffer(width)
       \/ \E op \in {"get_server_state", "query_bound"} : Query(op)
       \/ \E mode \in ModeStrings, samples \in 1..MaxSamples, factor \in 1..MaxReduction,
            asserts \in BOOLEAN :
             StartRendering(mode, samples, factor, asserts)
       \/ CancelRendering
       \/ RequestRenderOutput
       \/ ProcessCancel
       \/ FrameNotReady
       \/ FrameDone
       \/ FrameFinishes

SpecRender == Init /\ [][NextRender]_vars

\* Every command that changes the scene, sent while idle or while a render
\* session started with plain settings is under way.
NextScene ==
    /\ UNCHANGED <<validation_vars, thread_vars>>
    /\ \/ Accept
       \/ \E op \in {"bye", "quit"} : Bye(op)
       \/ UpdateRendererType("scivis")
       \/ ClearScene
       \/ UpdateRenderSettings(TRUE)
       \/ UpdateWorldSettings(TRUE)
       \/ UpdateCamera(TRUE)
       \/ \E name \in MaterialNames : UpdateMaterial(name)
       \/ UpdateFramebuffer(4)
       \/ UpdatePluginInstance(RenderRequest, TRUE, "loaded", "full")
       \/ UpdateBlenderMesh("d1", PlainMesh)
       \/ UpdateObject("MESH", RenderUpdate, TRUE, TRUE)
       \/ StartRendering("final", 1, 1, FALSE)
       \/ FrameNotReady
       \/ FrameDone
       \/ FrameFinishes

SpecScene == Init /\ [][NextScene]_vars

\* Object creates, same-kind updates and kind-changing updates over a data
\* store that holds a mesh or a geometry plugin instance, each followed or
\* not by the start of a render session, which snapshots the active lists
\* into the world.
NextWorld ==
    /\ UNCHANGED <<validation_vars, thread_vars>>
    /\ \/ Accept
       \/ UpdateBlenderMesh("d1", PlainMesh)
       \/ UpdatePluginInstance(RenderRequest, TRUE, "loaded", "full")
       \/ \E kind \in ObjectKinds, u \in Updates : UpdateObject(kind, u, TRUE, FALSE)
       \/ ClearScene
       \/ StartRendering("final", 1, 1, FALSE)
       \/ FrameNotReady
       \/ FrameDone
       \/ FrameFinishes

SpecWorld == Init /\ [][NextWorld]_vars

\* Render sessions over every sample count and reduction factor the two
\* unsigned fields of START_RENDERING can carry, zero included, with
\* cancel, forced cancel (clear-scene) and update-framebuffer in between.
NextSession ==
    /\ UNCHANGED <<validation_vars, thread_vars>>
    /\ \/ Accept
       \/ NoMessage
       \/ \E width \in Widths : UpdateFramebuffer(width)
       \/ \E mode \in {"final", "interactive"}, samples \in 0..MaxSamples,
             factor \in 0..MaxReduction :
             StartRendering(mode, samples, factor, FALSE)
       \/ CancelRendering
       \/ ClearScene
       \/ ProcessCancel
       \/ FrameNotReady
       \/ FrameDone
       \/ FrameFinishes

SpecSession == Init /\ [][NextSession]_vars

\* The loop of handle_connection keeps running (it polls the socket, then
\* the render future, every millisecond) and the renderer finishes every
\* frame it was given.
FairSession ==
    /\ SpecSession
    /\ WF_vars(NoMessage /\ UNCHANGED <<validation_vars, thread_vars>>)
    /\ WF_vars(FrameNotReady /\ UNCHANGED <<validation_vars, thread_vars>>)
    /\ WF_vars(ProcessCancel /\ UNCHANGED <<validation_vars, thread_vars>>)
    /\ WF_vars(FrameDone /\ UNCHANGED <<validation_vars, thread_vars>>)
    /\ WF_vars(FrameFinishes /\ UNCHANGED <<validation_vars, thread_vars>>)

\* Clear-scene between the commands that fill the stores it must leave
\* alone (data, objects, materials, camera, framebuffers), while idle and
\* while a render session is under way.
NextClear ==
    /\ UNCHANGED <<validation_vars, thread_vars>>
    /\ \/ Accept
       \/ ClearScene
       \/ UpdateCamera(TRUE)
       \/ \E name \in MaterialNames : UpdateMaterial(name)
       \/ \E width \in Widths : UpdateFramebuffer(width)
       \/ UpdatePluginInstance(RenderRequest, TRUE, "loaded", "full")
       \/ UpdateBlenderMesh("d1", PlainMesh)
       \/ \E kind \in {"MESH", "GEOMETRY"} : UpdateObject(kind, RenderUpdate, TRUE, FALSE)
       \/ StartRendering("final", 1, 1, FALSE)
       \/ FrameNotReady
       \/ FrameDone
       \/ FrameFinishes

SpecClear == Init /\ [][NextClear]_vars

\* The thread-based server on one connection: render sessions of up to
\* MaxSamples samples, cancels sent at any moment of a session, and the
\* render thread and the connection loop interleaved step by step.
NextThread ==
    /\ UNCHANGED <<server_vars, validation_vars>>
    /\ \/ \E samples \in 0..MaxSamples : ThreadStartRendering(samples)
       \/ ThreadCancelRendering
       \/ ThreadRenders
       \/ ThreadChecks
       \/ ThreadFinishes
       \/ ForwardResult

SpecThread == Init /\ [][NextThread]_vars

\* Light objects: creates, same-subtype and subtype-changing updates, and
\* updates that change the kind of the object between mesh and light.
LightUpdates == [type : LightTypes, light_name : {"l1"}]

NextLights ==
    /\ UNCHANGED <<validation_vars, thread_vars>>
    /\ \/ Accept
       \/ UpdateBlenderMesh("d1", PlainMesh)
       \/ UpdateObject("MESH", RenderUpdate, TRUE, FALSE)
       \/ \E name \in ObjNames, settings \in LightUpdates, recv_ok \in BOOLEAN,
             asserts \in BOOLEAN, garbage \in GarbageHandles :
             UpdateLight(name, settings, recv_ok, asserts, garbage)
       \/ ClearScene

SpecLights == Init /\ [][NextLights]_vars

\* check_plugin_parameters on its own, over declared parameter lists of up
\* to MaxParams entries and actual parameters that give some of the names
\* a value of some JSON kind.
ParamNames == {"n", "m"}

ParamTypes == {"PARAM_INT", "PARAM_FLOAT", "PARAM_STRING", "PARAM_USER"}

ParamLengths == {1, 3}

JsonKinds == {"integer", "float", "string", "boolean", "array", "object"}

PluginParameters == [name : ParamNames, length : ParamLengths, type : ParamTypes]

DeclaredLists == UNION {[1..k -> PluginParameters] : k \in 0..MaxParams}

ActualParameters == UNION {[names -> JsonKinds] : names \in SUBSET ParamNames}

InitValidation ==
    /\ InitServer
    /\ InitThread
    /\ validate_declared \in DeclaredLists
    /\ validate_actual \in ActualParameters
    /\ validation = "none"

Validate ==
    /\ validation = "none"
    /\ validation' = IF check_plugin_parameters(validate_declared, validate_actual)
                     THEN "ok" ELSE "errors"
    /\ UNCHANGED <<validate_declared, validate_actual, pc, last>>
    /\ UNCHANGED thread_vars
    /\ KeepRender /\ KeepData /\ KeepObjects /\ KeepHandles /\ KeepSettings
    /\ KeepProcess

NextValidation == Validate

SpecValidation == InitValidation /\ [][NextValidation]_vars

Next ==
    \/ NextData \/ NextObjects \/ NextVolumes \/ NextRender \/ NextScene
    \/ NextWorld \/ NextSession \/ NextClear \/ NextLights \/ NextThread \/ NextValidation

Spec == Init /\ [][Next]_vars

\* ------------------------------------------------------------- properties
\* The step changes the data store, the object store, the material
\* registry, an active list, the renderer type, a settings record, the
\* camera or the framebuffer size.
StoresChanged ==
    \/ scene_data_types' # scene_data_types
    \/ plugin_instances' # plugin_instances
    \/ plugin_state' # plugin_state
    \/ blender_meshes' # blender_meshes
    \/ scene_objects' # scene_objects
    \/ scene_instances' # scene_instances
    \/ scene_lights' # scene_lights
    \/ scene_materials' # scene_materials
    \/ current_renderer_type' # current_renderer_type
    \/ render_settings' # render_settings
    \/ world_settings' # world_settings
    \/ camera' # camera
    \/ framebuffer_width' # framebuffer_width

\* C1: an update-plugin-instance that repeats the previous data command on
\* its name (same type, plugin name, parameters and custom properties, same
\* renderer type, and that command stored its instance) is a cache hit: it
\* sends a success result, does not call generate, and leaves the type
\* catalog, the instance (hashes, handles) and its state (renderer) as
\* they were.
C1_RepeatIsCacheHit ==
    [][\A r \in Requests :
          (/\ last_data_cmd[r.name] = PluginCmd(r, current_renderer_type)
           /\ \E e \in PluginEnvs :
                 e.recv_ok /\ UpdatePluginInstance(r, e.recv_ok, e.load, e.gen))
          => /\ last'.outcome = "cache_hit"
             /\ last'.success = "true"
             /\ ~last'.called
             /\ UNCHANGED <<scene_data_types, plugin_instances, plugin_state,
                            next_handle, released>>]_vars

C1_Witness ==
    /\ last.op = "update_plugin_instance"
    /\ last.outcome = "cache_hit"
    /\ last_data_cmd["d1"].op = "plugin_ok"
    /\ "d1" \in DOMAIN plugin_instances
    /\ plugin_instances["d1"].state.geometry # NullHandle

\* C2: a cancel-rendering received while a sample is in flight sets the
\* cancel flag and nothing else; with the flag set the only thing the loop
\* does is tear the session down (future released, mode idle, one CANCELED
\* record appended, sample index and reduction factor not advanced); a
\* cancelled session's records end with its single CANCELED record; and a
\* start-rendering after it is accepted.
C2_CancelMidRender ==
    /\ [](cancel_rendering => render_mode # "RM_IDLE" /\ pc = "render")
    /\ [](session.ended = "canceled" =>
            /\ render_mode = "RM_IDLE"
            /\ render_future = "null"
            /\ ~cancel_rendering
            /\ Len(sent) >= 1
            /\ sent[Len(sent)].type = "CANCELED"
            /\ \A i \in 1..(Len(sent) - 1) : sent[i].type = "FRAME")
    /\ [][/\ (CancelRendering /\ render_mode # "RM_IDLE") =>
                /\ cancel_rendering'
                /\ pc' = "render"
                /\ UNCHANGED <<sent, render_mode, render_future, current_sample,
                               framebuffer_reduction_factor>>
          /\ cancel_rendering =>
                \/ FrameFinishes
                \/ /\ render_mode' = "RM_IDLE"
                   /\ render_future' = "null"
                   /\ ~cancel_rendering'
                   /\ sent' = Append(sent, CanceledRecord("sock"))
                   /\ session' = [session EXCEPT !.ended = "canceled"]
                   /\ UNCHANGED <<current_sample, framebuffer_reduction_factor>>
          /\ (session.ended = "canceled"
              /\ \E mode \in ModeStrings, samples \in 1..MaxSamples,
                    factor \in 1..MaxReduction, asserts \in BOOLEAN :
                    StartRendering(mode, samples, factor, asserts))
               => /\ last'.outcome = "started"
                  /\ session'.ended = "running"
                  /\ server' = "running"]_vars

C2_Witness ==
    /\ session.ended = "canceled"
    /\ session.samples = MaxSamples
    /\ Len(sent) = 2
    /\ sent[1].type = "FRAME"
    /\ sent[2].type = "CANCELED"
    /\ render_mode = "RM_IDLE"

\* C3: the records of a final-mode session with N samples are FRAME 1, 2,
\* ... in order at reduction factor 1 while it runs, and FRAME 1..N followed
\* by one DONE, with the session idle, once it has finished.
C3_FinalFrames ==
    (session.mode = "final" /\ session.ended \in {"running", "done"}) =>
        LET N == session.samples
            done == session.ended = "done"
            frames == IF done THEN N ELSE current_sample - 1
        IN /\ N >= 1
           /\ Len(sent) = frames + (IF done THEN 1 ELSE 0)
           /\ \A i \in 1..frames :
                 /\ sent[i].type = "FRAME"
                 /\ sent[i].sample = i
                 /\ sent[i].reduction_factor = 1
           /\ done => sent[N + 1].type = "DONE" /\ render_mode = "RM_IDLE"
           /\ ~done => render_mode = "RM_FINAL" /\ current_sample <= N

C3_Witness ==
    /\ session.mode = "final"
    /\ session.ended = "done"
    /\ session.samples = MaxSamples
    /\ Len(sent) = MaxSamples + 1
    /\ sent[MaxSamples].sample = MaxSamples
    /\ sent[MaxSamples + 1].type = "DONE"

\* C4: every step that changes the data store, the object store, the
\* material registry, the instance or light list, the renderer type, the
\* render or world settings, the camera or the framebuffer size ends with
\* the session idle, and the framebuffer list changes only in such a step or
\* in the start of a session from idle.
C4_MutationsWhenIdle ==
    [][/\ StoresChanged => render_mode' = "RM_IDLE"
       /\ framebuffers' # framebuffers =>
             render_mode' = "RM_IDLE" \/ render_mode = "RM_IDLE"]_vars

C4_Witness ==
    /\ session.ended = "forced"
    /\ render_mode = "RM_IDLE"
    /\ render_future = "null"
    /\ last.op = "update_blender_mesh"
    /\ "d1" \in DOMAIN blender_meshes

\* C5: a start-rendering received while the session is not idle is ignored:
\* mode, sample index, sample count, reduction factor and the future are
\* unchanged, the server keeps running and the connection stays open.
C5_StartWhileRenderingIgnored ==
    [][(/\ render_mode # "RM_IDLE"
        /\ \E mode \in ModeStrings, samples \in 1..MaxSamples,
              factor \in 1..MaxReduction, asserts \in BOOLEAN :
              StartRendering(mode, samples, factor, asserts))
       => /\ last'.outcome = "ignored"
          /\ server' = "running"
          /\ conn' = "open"
          /\ UNCHANGED <<render_mode, current_sample, render_samples,
                         framebuffer_reduction_factor, render_future>>]_vars

\* C6: a cancel-rendering received while the session is idle changes
\* nothing (no record, mode still idle, cancel flag as it was); the cancel
\* flag is never set while the session is idle; and a session that has just
\* been started has the flag clear.
C6_CancelWhileIdleIgnored ==
    /\ [](render_mode = "RM_IDLE" => ~cancel_rendering)
    /\ []((last.op = "start_rendering" /\ last.outcome = "started")
             => ~cancel_rendering)
    /\ [][(CancelRendering /\ render_mode = "RM_IDLE")
           => /\ last'.outcome = "ignored"
              /\ ~cancel_rendering'
              /\ UNCHANGED <<sent, render_mode, render_future, session,
                             current_sample, render_samples>>]_vars

C6_Witness ==
    /\ last.op = "cancel_rendering"
    /\ last.outcome = "ignored"
    /\ render_mode = "RM_IDLE"
    /\ ~cancel_rendering
    /\ session.ended = "done"

\* C7: a data name is held by at most one kind: it is never in both the
\* raw-mesh catalog and the plugin-instance catalog, and the type catalog
\* names exactly the catalog that holds it.
C7_OneKindPerName ==
    \A n \in DataNames :
        /\ ~(n \in DOMAIN blender_meshes /\ n \in DOMAIN plugin_instances)
        /\ (n \in DOMAIN blender_meshes) =
              (n \in DOMAIN scene_data_types /\ scene_data_types[n] = "SDT_MESH")
        /\ (n \in DOMAIN plugin_instances) =
              (n \in DOMAIN scene_data_types /\ scene_data_types[n] = "SDT_PLUGIN")

\* C8: an update-raw-mesh-data carrying 0 vertices or 0 triangles leaves a
\* previously unseen name out of the type catalog and the raw-mesh catalog,
\* and leaves the store unchanged when the name held a valid mesh.
C8_DegenerateMeshRejected ==
    [][\A n \in DataNames, m \in MeshMessages :
          (/\ m.recv_ok /\ (m.nv = 0 \/ m.nt = 0)
           /\ UpdateBlenderMesh(n, m))
          => /\ last'.outcome = "rejected"
             /\ n \notin DOMAIN scene_data_types =>
                   /\ n \notin DOMAIN scene_data_types'
                   /\ n \notin DOMAIN blender_meshes'
             /\ (/\ scene_data_with_type_exists(scene_data_types, n, "SDT_MESH")
                 /\ blender_meshes[n].committed
                 /\ blender_meshes[n].num_vertices > 0
                 /\ blender_meshes[n].num_triangles > 0)
                => UNCHANGED <<scene_data_types, plugin_instances, plugin_state,
                               blender_meshes>>]_vars

\* The data type an object update of the given kind looks its data_link up
\* with, and the type of scene object it finds or makes.
ExpectedDataType(kind) == IF kind = "MESH" THEN "SDT_MESH" ELSE "SDT_PLUGIN"

ObjectTypeOf(kind) ==
    CASE kind = "MESH" -> "SOT_MESH"
      [] kind = "GEOMETRY" -> "SOT_GEOMETRY"
      [] kind = "VOLUME" -> "SOT_VOLUME"
      [] kind = "ISOSURFACES" -> "SOT_ISOSURFACES"
      [] OTHER -> "SOT_SCENE"

\* C9: once a name has changed kind the entity of the old kind is gone from
\* its catalog, and an update of an object that links to the name and
\* expects a kind the name does not hold fails with the link error and
\* leaves the object store and the active lists as they were.
C9_KindChange ==
    /\ [](\A n \in DataNames :
            /\ (last.op = "update_plugin_instance" /\ last.name = n
                /\ last.outcome = "generated") => n \notin DOMAIN blender_meshes
            /\ (last.op = "update_blender_mesh" /\ last.name = n)
                   => n \notin DOMAIN plugin_instances)
    /\ [][\A kind \in ObjectKinds, u \in Updates :
             (/\ u.data_link \in DOMAIN scene_data_types
              /\ scene_data_types[u.data_link] # ExpectedDataType(kind)
              /\ u.name \in DOMAIN scene_objects =>
                    scene_objects[u.name].type = ObjectTypeOf(kind)
              /\ \E asserts \in BOOLEAN : UpdateObject(kind, u, TRUE, asserts))
             => /\ last'.outcome = "link_failed"
                /\ UNCHANGED <<scene_objects, scene_instances, scene_lights>>]_vars

\* Outcomes of update-plugin-instance in which no instance was produced.
FailedOutcomes ==
    {"load_failed", "no_generate_function", "bad_parameters", "generate_failed",
     "no_output"}

\* C10: after an update-plugin-instance that failed at load, parameter
\* validation or generation, the name is in none of the four catalogs.
C10_FailureLeavesNoEntity ==
    (last.op = "update_plugin_instance" /\ last.outcome \in FailedOutcomes) =>
        /\ last.name \notin DOMAIN scene_data_types
        /\ last.name \notin DOMAIN plugin_instances
        /\ last.name \notin DOMAIN plugin_state
        /\ last.name \notin DOMAIN blender_meshes

\* C11: every failing update-plugin-instance sends the client a result whose
\* success flag is false, and leaves the connection open.
C11_FailureReported ==
    (last.op = "update_plugin_instance" /\ last.outcome \in FailedOutcomes) =>
        /\ last.success = "false"
        /\ conn = "open"

\* The handles a scene object holds for its instance, group and models.
ObjectHandles(obj) ==
    [instance |-> obj.instance, group |-> obj.group, gmodel |-> obj.gmodel,
     vmodel |-> obj.vmodel, isosurfaces_geometry |-> obj.isosurfaces_geometry]

\* The update-object step of the given kinds that succeeds on an object the
\* store already holds with that kind keeps the object's handles, creates
\* no handle and releases none.
HandlesReusedFor(kinds) ==
    \A kind \in kinds, u \in AllUpdates :
        (/\ u.name \in DOMAIN scene_objects
         /\ scene_objects[u.name].type = ObjectTypeOf(kind)
         /\ ~scene_objects[u.name].deleted
         /\ \E asserts \in BOOLEAN : UpdateObject(kind, u, TRUE, asserts)
         /\ last'.outcome = "updated")
        => /\ u.name \in DOMAIN scene_objects'
           /\ ObjectHandles(scene_objects'[u.name]) = ObjectHandles(scene_objects[u.name])
           /\ next_object_handle' = next_object_handle
           /\ released' = released

\* C12: a successful update-object on an existing mesh, geometry, volume or
\* isosurfaces object of unchanged kind keeps its instance, group and model
\* handles, allocates no handle and releases none.
C12_HandlesReused ==
    [][HandlesReusedFor({"MESH", "GEOMETRY", "VOLUME", "ISOSURFACES"})]_vars

\* Every renderer-native handle a scene object owns.
OwnedHandles(obj) ==
    (({obj.instance, obj.group, obj.gmodel, obj.vmodel, obj.isosurfaces_geometry}
        \ {NullHandle})
     \cup SeqToSet(obj.instances)) \cup SeqToSet(obj.lights)

\* C13: an update-object that asks for another kind than the stored object
\* has releases every handle the old object owns, and the store entry, when
\* there is one afterwards, is an object of the new kind that shares no
\* handle with the old one.
C13_KindChangeReleasesAll ==
    [][\A kind \in ObjectKinds \cup VolumeKinds, u \in AllUpdates :
          (/\ u.name \in DOMAIN scene_objects
           /\ scene_objects[u.name].type # ObjectTypeOf(kind)
           /\ ~scene_objects[u.name].deleted
           /\ \E asserts \in BOOLEAN : UpdateObject(kind, u, TRUE, asserts)
           /\ last'.outcome # "assert_failed")
          => /\ OwnedHandles(scene_objects[u.name]) \subseteq released'
             /\ u.name \in DOMAIN scene_objects' =>
                   /\ scene_objects'[u.name].type = ObjectTypeOf(kind)
                   /\ OwnedHandles(scene_objects'[u.name])
                         \cap OwnedHandles(scene_objects[u.name]) = {}]_vars

\* C14: an update-object that fails on its linked data leaves no store
\* entry under the name when the store held no object of that kind, and
\* leaves the stored object of that kind as it was, with none of its
\* handles released and the object not destroyed.
C14_LinkFailureKeepsStore ==
    [][\A kind \in ObjectKinds \cup VolumeKinds, u \in AllUpdates :
          (/\ \E asserts \in BOOLEAN : UpdateObject(kind, u, TRUE, asserts)
           /\ ~Dangling(u.name)
           /\ last'.outcome = "link_failed")
          => IF u.name \in DOMAIN scene_objects
                /\ scene_objects[u.name].type = ObjectTypeOf(kind)
             THEN /\ scene_objects' = scene_objects
                  /\ OwnedHandles(scene_objects[u.name]) \cap released'
                        \subseteq released
             ELSE u.name \notin DOMAIN scene_objects']_vars

\* The plugin type the update function of an object kind asserts on its
\* linked plugin instance.
ExpectedPluginType(kind) ==
    CASE kind = "GEOMETRY" -> "PT_GEOMETRY"
      [] kind = "SCENE" -> "PT_SCENE"
      [] OTHER -> "PT_VOLUME"

\* C15: an update-object of kind geometry, volume, isosurfaces or scene
\* whose data_link names a plugin instance of another plugin type fails,
\* leaves the object store unchanged, and the server keeps running with the
\* connection open.
C15_PluginKindMismatch ==
    [][\A kind \in {"GEOMETRY", "SCENE"} \cup VolumeKinds, u \in AllUpdates :
          (/\ scene_data_with_type_exists(scene_data_types, u.data_link, "SDT_PLUGIN")
           /\ plugin_instances[u.data_link].type # ExpectedPluginType(kind)
           /\ ~Dangling(u.name)
           /\ \E asserts \in BOOLEAN : UpdateObject(kind, u, TRUE, asserts))
          => /\ last'.outcome = "link_failed"
             /\ scene_objects' = scene_objects
             /\ server' = "running"
             /\ conn' = "open"]_vars

\* C16: every material in the registry was created for the current renderer
\* type; a change of the renderer type leaves the registry empty; and the
\* material a mesh or geometry object update has just bound is a registry
\* material of the current renderer type or, when the name is not in the
\* registry, the default material of the current renderer type.
C16_MaterialsFollowRenderer ==
    /\ [](\A m \in DOMAIN scene_materials :
             scene_materials[m] = current_renderer_type)
    /\ [][current_renderer_type' # current_renderer_type
             => scene_materials' = EmptyMap]_vars
    /\ []((/\ last.op = "update_object"
           /\ last.outcome \in {"created", "updated"}
           /\ scene_objects[last.name].type \in {"SOT_MESH", "SOT_GEOMETRY"})
          => LET material == scene_objects[last.name].material IN
             /\ material[3] = current_renderer_type
             /\ IF material[2] \in DOMAIN scene_materials
                THEN material = <<"scene", material[2], scene_materials[material[2]]>>
                ELSE material = <<"default", current_renderer_type,
                                  current_renderer_type>>)

\* An object was bound to material m1 of the old renderer type, the renderer
\* type has just been changed, and the registry is empty.
C16_Witness ==
    /\ last.op = "update_renderer_type"
    /\ scene_materials = EmptyMap
    /\ "o1" \in DOMAIN scene_objects
    /\ scene_objects["o1"].material[1] = "scene"
    /\ scene_objects["o1"].material[3] # current_renderer_type

\* C17: a definition in the plugin registry stays there unchanged; in every
\* state, a request for a plugin whose definition is in the registry does
\* not end in a load failure and leaves the registry alone, whatever
\* loading the extension would do now; a request for a plugin not in the
\* registry loads it: a successful load adds its definition, a failed load
\* ends the request and adds nothing, so the next request loads again.
C17_RegistryCaching ==
    /\ [][\A k \in DOMAIN plugin_definitions :
             /\ k \in DOMAIN plugin_definitions'
             /\ plugin_definitions'[k] = plugin_definitions[k]]_vars
    /\ [](\A r \in Requests, e \in PluginEnvs :
            e.recv_ok =>
               LET key == internal_name(r.type, r.plugin_name)
                   res == handle_update_plugin_instance(DataStore, plugin_definitions,
                              current_renderer_type, next_handle, r, TRUE, e.load, e.gen)
               IN
               IF key \in DOMAIN plugin_definitions
               THEN /\ res.outcome # "load_failed"
                    /\ res.defs = plugin_definitions
               ELSE IF e.load = "loaded"
               THEN /\ res.outcome # "load_failed"
                    /\ res.defs = MapPut(plugin_definitions, key,
                                         PluginLibrary(r.type, r.plugin_name))
               ELSE /\ res.outcome = "load_failed"
                    /\ res.defs = plugin_definitions)

\* A load has just failed for one plugin while the definition of another is
\* in the registry.
C17_Witness ==
    /\ last.op = "update_plugin_instance"
    /\ last.outcome = "load_failed"
    /\ DOMAIN plugin_definitions # {}
    /\ DOMAIN plugin_definitions # PluginKeys

\* A declared parameter is met by the actual parameters: it is present, it
\* is an array when declared with a length above 1, and else it is a
\* scalar, of the declared type when that is integer, float or string.
Conforms(pdef, actual) ==
    /\ pdef.name \in DOMAIN actual
    /\ pdef.length > 1 => actual[pdef.name] = "array"
    /\ pdef.length <= 1 =>
          /\ actual[pdef.name] \notin {"array", "object"}
          /\ pdef.type = "PARAM_INT" => actual[pdef.name] = "integer"
          /\ pdef.type = "PARAM_FLOAT" => actual[pdef.name] = "float"
          /\ pdef.type = "PARAM_STRING" => actual[pdef.name] = "string"

Reversed(s) == [i \in 1..Len(s) |-> s[Len(s) + 1 - i]]

\* C18: check_plugin_parameters returns ok exactly when every declared
\* parameter is met by the actual parameters, and returns the same for the
\* declared parameters in the reverse order.
C18_ValidationExact ==
    validation # "none" =>
        /\ (validation = "ok") =
              (\A i \in 1..Len(validate_declared) :
                  Conforms(validate_declared[i], validate_actual))
        /\ (validation = "ok") =
              check_plugin_parameters(Reversed(validate_declared), validate_actual)

\* The call has reported errors for a list whose first parameter is not met
\* and whose last parameter is.
C18_Witness ==
    /\ validation = "errors"
    /\ Len(validate_declared) = 2
    /\ ~Conforms(validate_declared[1], validate_actual)
    /\ Conforms(validate_declared[2], validate_actual)

\* C19: once the connection has ended on a bye or quit command or on a
\* failed read of a client message, the render session is idle with no
\* frame in flight.
C19_TerminationForcesIdle ==
    (conn = "listening" /\ last.op \in {"bye", "quit", "receive"}) =>
        /\ render_mode = "RM_IDLE"
        /\ render_future = "null"

\* C20: a handshake with another protocol version gets a failure result and
\* the connection is closed, no store or session state changes and nothing
\* more is processed on that connection; a handshake with the server's
\* version gets a success result and the connection stays open.
C20_Handshake ==
    /\ [][\A v \in ClientVersions :
            Hello(v) =>
                /\ last'.op = "hello"
                /\ KeepData /\ KeepObjects /\ KeepHandles /\ KeepSettings
                /\ KeepRender
                /\ server' = server
                /\ IF v # PROTOCOL_VERSION
                   THEN last'.success = "false" /\ conn' = "listening"
                   ELSE last'.success = "true" /\ conn' = "open"]_vars
    /\ [][(last.op = "hello" /\ last.success = "false" /\ conn = "listening")
            => (last' = last /\ KeepData /\ KeepObjects /\ KeepSettings)]_vars

C20_Witness ==
    /\ last.op = "hello" /\ last.success = "false"
    /\ conn = "listening" /\ server = "running"

\* The reduction factors an interactive session steps through from factor
\* R: R, R halved, ..., 1.
RECURSIVE FactorSteps(_)
FactorSteps(R) == IF R <= 1 THEN <<R>> ELSE <<R>> \o FactorSteps(R \div 2)

\* The records of a complete interactive session of N samples started at
\* reduction factor R, as <type, sample, reduction factor>.
InteractiveRecords(N, R) ==
    [i \in 1..Len(FactorSteps(R)) |-> <<"FRAME", 1, FactorSteps(R)[i]>>]
    \o [i \in 1..(N - 1) |-> <<"FRAME", i + 1, 1>>]
    \o <<<<"DONE", 0, 0>>>>

RecordsSent == [i \in 1..Len(sent) |-> <<sent[i].type, sent[i].sample,
                                         sent[i].reduction_factor>>]

C22_InFlightIffRendering ==
    (render_future # "null") <=> (render_mode \in {"RM_FINAL", "RM_INTERACTIVE"})

\* C23: every release of the handle of a render operation comes after the
\* operation was seen finished or was waited for, and the handle of an
\* operation that is still running is released only after a wait.
C23_ReleaseAfterCompletion ==
    /\ [](release_after \in {"none", "ospIsReady", "ospWait"})
    /\ [][(render_future = "running" /\ render_future' = "null") =>
            release_after' = "ospWait"]_vars

\* C24: the first frame of every render session is launched on a framebuffer
\* whose accumulation is empty, so the first FRAME holds one sample.
C24_FirstFrameFresh ==
    (render_mode \in {"RM_FINAL", "RM_INTERACTIVE"} /\ sent = << >>) => frame_fresh

\* The plugin instance stored under the name answers the request: same
\* plugin type, plugin name, parameter hash and custom-property hash, and
\* generated under the current renderer type when the plugin depends on it.
InstanceMatches(plugin_instance, r, renderer) ==
    /\ plugin_instance.type = r.type
    /\ plugin_instance.plugin_name = r.plugin_name
    /\ plugin_instance.parameters_hash = get_sha1(r.parameters)
    /\ plugin_instance.custom_properties_hash = get_sha1(r.custom_properties)
    /\ plugin_instance.state.uses_renderer_type =>
          plugin_instance.state.renderer = renderer

\* C25: in every state, an update-plugin-instance that returns true leaves
\* under the name a plugin instance that matches the request; when the
\* instance stored before does not match, it has been destroyed (its handles
\* released) and generate has been called; when it matches, the request is
\* a cache hit that calls nothing and changes nothing.
C25_StoredMatchesRequest ==
    \A r \in Requests, e \in PluginEnvs :
        LET res == handle_update_plugin_instance(DataStore, plugin_definitions,
                       current_renderer_type, next_handle, r, TRUE, e.load, e.gen)
            had == scene_data_with_type_exists(scene_data_types, r.name, "SDT_PLUGIN")
        IN (e.recv_ok /\ res.ret) =>
              /\ scene_data_with_type_exists(res.d.sdt, r.name, "SDT_PLUGIN")
              /\ r.name \in DOMAIN res.d.pi
              /\ InstanceMatches(res.d.pi[r.name], r, current_renderer_type)
              /\ res.d.ps[r.name] = res.d.pi[r.name].state
              /\ had =>
                    LET old == plugin_instances[r.name] IN
                    IF InstanceMatches(old, r, current_renderer_type)
                    THEN /\ ~res.called
                         /\ res.d = DataStore
                    ELSE /\ res.called
                         /\ StateHandles(old.type, old.state) \subseteq res.d.rel
                         /\ StateHandles(res.d.pi[r.name].type, res.d.pi[r.name].state)
                               \cap res.d.rel = {}
              /\ ~had => res.called

\* A stored instance has just been replaced by a regenerated one.
C25_Witness ==
    /\ last.op = "update_plugin_instance"
    /\ last.outcome = "generated"
    /\ "d1" \in DOMAIN plugin_instances
    /\ \E h \in released : h > AmbientLight /\ h < plugin_instances["d1"].state.geometry

\* C26: a command whose message or payload message could not be received
\* ends the connection: the step in which the receive fails closes the
\* socket.
C26_ReceiveFailureIsFatal ==
    [][(MsgReady /\ last' # last /\ last'.outcome = "receive_failed") =>
          conn' = "listening"]_vars

\* The terminal records among the records sent since the session started.
TerminalRecords == {i \in 1..Len(sent) : sent[i].type \in {"DONE", "CANCELED"}}

\* C27: when a render session ends and the connection stays open, the
\* records sent for it hold exactly one terminal record, the last one: DONE
\* when the session ran to its last sample, CANCELED when it was cancelled
\* by cancel-rendering or by the forced cancel before another command.
C27_OneTerminalRecord ==
    [][(session.ended = "running" /\ session'.ended # "running"
        /\ conn = "open" /\ conn' = "open") =>
          /\ TerminalRecords' = {Len(sent')}
          /\ sent'[Len(sent')].type =
                IF session'.ended = "done" THEN "DONE" ELSE "CANCELED"]_vars

\* Instance handles owned by the objects in the store.
OwnedInstances ==
    UNION {IF scene_objects[o].deleted THEN {}
           ELSE ({scene_objects[o].instance} \ {NullHandle})
                \cup SeqToSet(scene_objects[o].instances) : o \in DOMAIN scene_objects}

\* Light handles owned by the objects in the store.
OwnedLights ==
    UNION {IF scene_objects[o].deleted THEN {}
           ELSE SeqToSet(scene_objects[o].lights) : o \in DOMAIN scene_objects}

NoDuplicates(s) == \A i, j \in 1..Len(s) : s[i] = s[j] => i = j

\* C28: the active instance list and the active light list that a render
\* session start has just put in the world hold only handles that are owned
\* by an object in the store (or the ambient light), none released and none
\* twice.
C28_ListsDerivedFromStore ==
    (last.op = "start_rendering" /\ last.outcome = "started") =>
        /\ SeqToSet(scene_instances) \subseteq OwnedInstances
        /\ SeqToSet(scene_lights) \subseteq OwnedLights \cup {AmbientLight}
        /\ SeqToSet(scene_instances) \cap released = {}
        /\ SeqToSet(scene_lights) \cap released = {}
        /\ NoDuplicates(scene_instances)
        /\ NoDuplicates(scene_lights)

\* The geometry currently held by the data entity of that name.
GeometryOf(name) ==
    IF scene_data_types'[name] = "SDT_MESH" THEN blender_meshes'[name].geometry
    ELSE plugin_instances'[name].state.geometry

\* C29: a successful update of an existing mesh or geometry object leaves
\* the object with the data link of the update and with a model made from
\* the geometry the linked data entity holds now, which is not a released
\* handle.
C29_ModelFollowsData ==
    [][\A kind \in {"MESH", "GEOMETRY"}, u \in Updates, asserts \in BOOLEAN :
          (UpdateObject(kind, u, TRUE, asserts) /\ last'.outcome = "updated") =>
              LET obj == scene_objects'[u.name]
              IN /\ obj.data_link = u.data_link
                 /\ obj.model_of = GeometryOf(u.data_link)
                 /\ obj.model_of \notin released']_vars

C31_LightReplacedOnTypeChange ==
    \A name \in ObjNames, settings \in LightUpdates, asserts \in BOOLEAN,
       garbage \in GarbageHandles :
        LET w0 == ObjectStore(released, next_object_handle)
            res == update_light_object(w0, asserts, name, settings, garbage)
        IN (/\ name \in DOMAIN scene_objects
            /\ scene_objects[name].type = "SOT_LIGHT"
            /\ ~scene_objects[name].deleted
            /\ res.ret) =>
              LET old == scene_objects[name]
                  new == res.w.so[name]
              IN /\ new.type = "SOT_LIGHT"
                 /\ new.light_type = settings.type
                 /\ new.light \notin res.w.rel
                 /\ IF old.light_type = settings.type
                    THEN new.light = old.light
                    ELSE /\ old.light \in res.w.rel
                         /\ new.light # old.light
                         /\ new.light = ObjectHandle(next_object_handle + 1)

\* C32: all progress records of one render session are sent on one channel:
\* while an interactive session with a registered output channel runs every
\* record sent so far went to the output channel, while any other session
\* runs every record went to the command channel, and the terminal record
\* goes where the records before it went.
C32_OneChannelPerSession ==
    /\ \A i, j \in 1..Len(sent) : sent[i].chan = sent[j].chan
    /\ render_mode # "RM_IDLE" =>
          \A i \in 1..Len(sent) :
              sent[i].chan = IF render_mode = "RM_INTERACTIVE"
                                /\ render_output_socket # "null"
                             THEN "output" ELSE "sock"

\* C33: whenever the render session is not idle, the reduction factor is at
\* least 1 and indexes the framebuffer list, and the framebuffer at that
\* index is a live framebuffer of the configured width divided by the
\* factor.
C33_FramebufferForFactor ==
    render_mode # "RM_IDLE" =>
        /\ 1 <= framebuffer_reduction_factor
        /\ framebuffer_reduction_factor + 1 <= Len(framebuffers)
        /\ framebuffers[framebuffer_reduction_factor + 1] # NullFB
        /\ framebuffers[framebuffer_reduction_factor + 1] =
               NewFrameBuffer(framebuffer_width \div framebuffer_reduction_factor)

\* C34: under fairness of the polling loop and of the renderer, every
\* render session started with a reduction factor of at least 1, whatever
\* its sample count, eventually returns to idle.
C34_SessionTerminates ==
    (render_mode # "RM_IDLE" /\ session.factor >= 1) ~> (render_mode = "RM_IDLE")

\* C38: a request for a separate output channel is accepted only while the
\* session is idle and no output channel is registered, and once a command
\* connection has ended with bye or quit no output channel is registered
\* any more.
C38_OutputChannelEndsWithConnection ==
    /\ (last.op = "request_render_output" /\ last.outcome = "accepted")
           => render_mode = "RM_IDLE"
    /\ (conn = "listening" /\ last.op \in {"bye", "quit"})
           => render_output_socket = "null"

\* C37: every world created at a render-session start is released exactly
\* once: no clear-scene releases a world that was already released, and no
\* accepted start-rendering replaces a world that was not released.
C37_WorldReleasedOnce ==
    [][/\ ClearScene => world # "released"
       /\ (StartRendering("final", 1, 1, FALSE) /\ render_mode = "RM_IDLE")
              => world # "live"]_vars

\* What a clear-scene step does to the lists, and the stores it leaves
\* alone but for the framebuffer set.
ClearSceneEffect ==
    /\ scene_instances' = << >>
    /\ scene_lights' = <<AmbientLight>>
    /\ UNCHANGED <<scene_data_types, plugin_instances, plugin_state, blender_meshes,
                   scene_objects, scene_materials, plugin_definitions, camera>>

\* An accepted start-rendering taken when the last command handled was
\* clear-scene builds the world from no instance and the ambient light.
StartAfterClearScene ==
    (last.op = "clear_scene" /\ render_mode = "RM_IDLE"
     /\ StartRendering("final", 1, 1, FALSE))
        => /\ world' = "live"
           /\ scene_instances' = << >>
           /\ scene_lights' = <<AmbientLight>>

\* C36 as stated: every clear-scene step empties the instance list, resets
\* the light list to the ambient light and leaves the data store, the
\* object store, the material registry, the plugin registry, the camera
\* and the framebuffer set unchanged; a start-rendering directly after it
\* builds a world with no instance and only the ambient light.
C36_ClearSceneKeepsFramebuffers ==
    [][/\ ClearScene =>
             /\ ClearSceneEffect
             /\ UNCHANGED <<framebuffer_width, framebuffers, accumulated>>
       /\ StartAfterClearScene]_vars

\* C36 amended: as stated, but the framebuffer set is unchanged only when
\* the session is idle; when a session is running the forced cancel
\* replaces the framebuffer at the current reduction factor by a new one of
\* the session's reduced size with no accumulated samples and leaves the
\* others alone.
C36_ClearSceneFrame ==
    [][/\ ClearScene =>
             /\ ClearSceneEffect
             /\ UNCHANGED framebuffer_width
             /\ IF render_mode = "RM_IDLE"
                THEN UNCHANGED <<framebuffers, accumulated>>
                ELSE /\ framebuffers' =
                            [framebuffers EXCEPT ![framebuffer_reduction_factor + 1] =
                                 NewFrameBuffer(reduced_framebuffer_width)]
                     /\ accumulated' = ResetAccumulation(accumulated,
                                                         framebuffer_reduction_factor)
       /\ StartAfterClearScene]_vars

\* A clear-scene has just forced a running session to idle, over a store
\* that holds an object, and emptied a list that held its instance.
C36_Witness ==
    /\ last.op = "clear_scene"
    /\ session.ended = "forced"
    /\ scene_objects # EmptyMap
    /\ scene_instances = << >> /\ scene_lights = <<AmbientLight>>
    /\ \E i \in 1..Len(accumulated) : ~accumulated[i]
    /\ camera = "committed"

\* Terminal records forwarded to the client in the current session of the
\* thread-based server.
ThreadTerminalRecords ==
    {k \in 1..Len(forwarded) : forwarded[k].type \in {"DONE", "CANCELED"}}

\* C35: in the thread-based server a cancel sent during one session never
\* acts on a later one: the cancel the thread acts on was sent in its own
\* session, every cancel in the input queue was sent in the current
\* session (so the queue is empty when a session starts), each session
\* forwards at most one terminal record and exactly one once it has ended,
\* and the thread is joined exactly once, when the session ends.
C35_CancelStaysInSession ==
    /\ canceled_by \in {0, thread_session}
    /\ \A k \in 1..Len(render_input_queue) : render_input_queue[k] = thread_session
    /\ Cardinality(ThreadTerminalRecords) <= 1
    /\ rendering => joined = 0 /\ ThreadTerminalRecords = {}
    /\ (~rendering /\ thread_session > 0) =>
           joined = 1 /\ Cardinality(ThreadTerminalRecords) = 1

====
